---- MODULE Spec2Model ----
(***************************************************************************)
(* Frame/pose synchronisation and export pipeline of posedetect.          *)
(*                                                                         *)
(*   Spec         the pose exporters and the pose timeline index           *)
(*                (json_exporter.py, frame_extraction.py, the Toronto      *)
(*                Gait CSV variant)                                        *)
(*   SpecExtract  one run of a frame loop: extract_frames of the raw or    *)
(*                overlay extractor (frame_extraction.py), or              *)
(*                _extract_frames_with_overlays / _process_video           *)
(*                (overlay_generator.py)                                   *)
(*   SpecManager  one call of FrameExtractionManager                       *)
(*                .extract_all_frame_types, running the loops above        *)
(*   SpecConfig   construction and first use of a FrameExtractionConfig    *)
(*   SpecPipeline one call of OutputManager.export_all_formats or of cli   *)
(*                process_video (output_manager.py, cli/main.py)           *)
(*   SpecRound    Pose.to_dict / Pose.from_dict and OutputManager          *)
(*                save_json / load_json (pose.py, output_manager.py)       *)
(*                                                                         *)
(* Python's None is the integer NoneVal; floats are integers (coordinates, *)
(* confidences) or exact fractions [num, den] (timestamps, progress); an   *)
(* Optional value is the empty sequence or <<v>> where None and an empty   *)
(* tuple must be told apart.                                               *)
(***************************************************************************)
EXTENDS Integers, Sequences, FiniteSets, TLC

\* ------------------------------------------------------------------ bounds
MaxPoses == 2
MaxFrame == 1
MaxTotal == 2
MaxVideoFrames == 4
MaxSkip == 3

\* ------------------------------------------------------ values and helpers
NoneVal == -1
Absent == -2
DefaultFps == 30
NoPersonId == -1

NoTimestamp == [num |-> 0, den |-> 0]

SeqsUpTo(S, n) == UNION {[1..k -> S] : k \in 0..n}

Range(s) == {s[i] : i \in DOMAIN s}

MaxOf(S) == CHOOSE m \in S : \A x \in S : x <= m

Min2(a, b) == IF a < b THEN a ELSE b

\* ------------------------------------------------------------- data model
KeyPoint(x, y, c) == [x |-> x, y |-> y, confidence |-> c]

Joint(name, id, kp) == [name |-> name, joint_id |-> id, keypoint |-> kp]

JointLists ==
    { <<>>,
      << Joint("nose", 0, KeyPoint(10, 20, 9)) >>,
      << Joint("nose", 0, KeyPoint(30, 40, 0)), Joint("neck", 1, KeyPoint(5, 6, 7)) >> }

FrameNumbers == {NoneVal} \cup (0..MaxFrame)

PersonIds == {0, 1}

Pose(js, pid, fn, ts, conf) ==
    [joints |-> js, person_id |-> pid, frame_number |-> fn,
     timestamp |-> ts, confidence |-> conf]

\* the detected persons: person 0 carries no timestamp, person 1 carries one
PersonStamps == {<<0, NoTimestamp>>, <<1, [num |-> 7, den |-> 2]>>}

PoseUniverse ==
    { Pose(js, st[1], fn, st[2], NoneVal) :
        js \in JointLists, st \in PersonStamps, fn \in FrameNumbers }

NoMeta == [present |-> FALSE, total_frames |-> Absent, fps |-> Absent]

VideoMetadata ==
    {NoMeta} \cup
    [present : {TRUE}, total_frames : {Absent} \cup (0..MaxTotal), fps : {Absent, 2}]

\* --------------------------------------------------- Toronto Gait vocabulary
TORONTO_GAIT_JOINT_ORDER ==
    << "Nose", "LEye", "REye", "LEar", "REar", "LShoulder", "RShoulder",
       "LElbow", "RElbow", "LWrist", "RWrist", "LHip", "RHip",
       "LKnee", "RKnee", "LAnkle", "RAnkle" >>

CocoNames ==
    << "nose", "left_eye", "right_eye", "left_ear", "right_ear",
       "left_shoulder", "right_shoulder", "left_elbow", "right_elbow",
       "left_wrist", "right_wrist", "left_hip", "right_hip",
       "left_knee", "right_knee", "left_ankle", "right_ankle" >>

TorontoNames == Range(TORONTO_GAIT_JOINT_ORDER)

\* TORONTO_GAIT_JOINT_MAPPING.get(name): the Toronto name, or "" when absent
TORONTO_GAIT_JOINT_MAPPING(name) ==
    IF \E i \in 1..17 : CocoNames[i] = name
    THEN TORONTO_GAIT_JOINT_ORDER[CHOOSE i \in 1..17 : CocoNames[i] = name]
    ELSE ""

ZeroTriple == [x |-> 0, y |-> 0, confidence |-> 0]

ZeroKeypoints == [n \in TorontoNames |-> ZeroTriple]

\* ------------------------------------------------------ pose timeline index
\* getattr(pose, 'frame_number', 0): Pose is a dataclass whose frame_number
\* field always exists, so the default is never taken and None comes back.
GetFrameNumber(pose) == pose.frame_number

EmptyDict == [k \in {} |-> <<>>]

\* a grouping that starts a fresh bucket on every pose
DictAppend_overwrite(d, k, v) ==
    [j \in (DOMAIN d) \cup {k} |-> IF j = k THEN <<v>> ELSE d[j]]

DictAppend(d, k, v) ==
    IF k \in DOMAIN d
    THEN [d EXCEPT ![k] = Append(@, v)]
    ELSE [j \in (DOMAIN d) \cup {k} |-> IF j = k THEN <<v>> ELSE d[j]]

RECURSIVE GroupFrom(_, _, _)
GroupFrom(ps, i, d) ==
    IF i > Len(ps) THEN d
    ELSE GroupFrom(ps, i + 1, DictAppend(d, GetFrameNumber(ps[i]), ps[i]))

\* OverlayFrameExtractor._group_poses_by_frame
Overlay_group_poses_by_frame(ps) == GroupFrom(ps, 1, EmptyDict)

\* JSONExporter._group_poses_by_frame
JSON_group_poses_by_frame(ps) == GroupFrom(ps, 1, EmptyDict)

\* poses_by_frame.get(frame_count, [])
DictGet(d, k) == IF k \in DOMAIN d THEN d[k] ELSE <<>>

\* ------------------------------------------------- Toronto Gait JSON export
Triple(joint) ==
    [x |-> joint.keypoint.x, y |-> joint.keypoint.y,
     confidence |-> joint.keypoint.confidence]

\* "Fill in available joint data": later joints of the same name overwrite
RECURSIVE FillJoints(_, _, _)
FillJoints(kps, js, i) ==
    IF i > Len(js) THEN kps
    ELSE LET toronto_name == TORONTO_GAIT_JOINT_MAPPING(js[i].name)
         IN  FillJoints(IF toronto_name # ""
                        THEN [kps EXCEPT ![toronto_name] = Triple(js[i])]
                        ELSE kps,
                        js, i + 1)

\* an export that takes the last pose of the bucket
PrimaryPose_last(frame_poses) == frame_poses[Len(frame_poses)]

\* the pose of a frame's bucket that the export writes
PrimaryPose(frame_poses) == frame_poses[1]

\* an export that copies the pose's own timestamp when the frame has a pose
FrameTimestamp_pose(frame_number, fps, pbf) ==
    IF frame_number \in DOMAIN pbf /\ pbf[frame_number][1].timestamp # NoTimestamp
    THEN pbf[frame_number][1].timestamp
    ELSE [num |-> frame_number, den |-> fps]

\* the timestamp of an exported frame
FrameTimestamp(frame_number, fps, pbf) == [num |-> frame_number, den |-> fps]

\* an export that marks a frame as undetected when no joint was filled
FrameData_zero_is_absent(pbf, frame_number, fps) ==
    LET kps == IF frame_number \in DOMAIN pbf
               THEN FillJoints(ZeroKeypoints, PrimaryPose(pbf[frame_number]).joints, 1)
               ELSE ZeroKeypoints
    IN  [frame_number |-> frame_number,
         timestamp |-> FrameTimestamp(frame_number, fps, pbf),
         person_id |-> IF \A n \in TorontoNames : kps[n].confidence = 0 THEN NoPersonId
                       ELSE PrimaryPose(pbf[frame_number]).person_id,
         keypoints |-> kps]

FrameData(pbf, frame_number, fps) ==
    IF frame_number \in DOMAIN pbf
    THEN LET pose == PrimaryPose(pbf[frame_number])
         IN  [frame_number |-> frame_number,
              timestamp |-> FrameTimestamp(frame_number, fps, pbf),
              person_id |-> pose.person_id,
              keypoints |-> FillJoints(ZeroKeypoints, pose.joints, 1)]
    ELSE [frame_number |-> frame_number,
          timestamp |-> FrameTimestamp(frame_number, fps, pbf),
          person_id |-> NoPersonId,
          keypoints |-> ZeroKeypoints]

MetaTotalFrames(vm) ==
    IF vm.present /\ vm.total_frames # Absent THEN vm.total_frames ELSE 0

MetaFps(vm) ==
    IF vm.present /\ vm.fps # Absent THEN vm.fps ELSE DefaultFps

NoDoc == [status |-> "none", frames |-> <<>>, total_frames |-> 0]

\* the frame count the export uses once metadata and poses are known; the
\* caller has excluded the TypeError case
TotalFramesFor(ps, vm) ==
    IF MetaTotalFrames(vm) = 0 /\ ps # <<>>
    THEN MaxOf({GetFrameNumber(ps[i]) : i \in 1..Len(ps)}) + 1
    ELSE MetaTotalFrames(vm)

\* JSONExporter._export_toronto_gait.  max() over frame numbers that include
\* None, or None + 1, raises TypeError.
JSON_export_toronto_gait(ps, vm) ==
    LET pbf == JSON_group_poses_by_frame(ps)
        fps == MetaFps(vm)
        derive == MetaTotalFrames(vm) = 0 /\ ps # <<>>
    IN  IF derive /\ \E i \in 1..Len(ps) : GetFrameNumber(ps[i]) = NoneVal
        THEN [status |-> "TypeError", frames |-> <<>>, total_frames |-> 0]
        ELSE LET total_frames == TotalFramesFor(ps, vm)
                 frames == [k \in 1..total_frames |-> FrameData(pbf, k - 1, fps)]
             IN  [status |-> "ok", frames |-> frames,
                  total_frames |-> IF vm.present /\ vm.total_frames # Absent
                                   THEN vm.total_frames ELSE Len(frames)]

\* the export without the check of the pose list
JSON_export_poses_unchecked(ps, vm) == JSON_export_toronto_gait(ps, vm)

\* JSONExporter.export_poses: the document written to output_path, if any
JSON_export_poses(ps, vm) ==
    IF ps = <<>>
    THEN [status |-> "ValueError", frames |-> <<>>, total_frames |-> 0]
    ELSE JSON_export_toronto_gait(ps, vm)

\* -------------------------------------------------- Toronto Gait CSV export
\* grouping key of the timeline index: frame_number, 0 for unstamped poses
CSV_frame_key(pose) ==
    IF pose.frame_number = NoneVal THEN 0 ELSE pose.frame_number

RECURSIVE CSV_group_from(_, _, _)
CSV_group_from(ps, i, d) ==
    IF i > Len(ps) THEN d
    ELSE CSV_group_from(ps, i + 1, DictAppend(d, CSV_frame_key(ps[i]), ps[i]))

CSV_row(pbf, frame_number, fps) ==
    [time |-> [num |-> frame_number, den |-> fps],
     joints |-> IF frame_number \in DOMAIN pbf
                THEN FillJoints(ZeroKeypoints, pbf[frame_number][1].joints, 1)
                ELSE ZeroKeypoints]

CSV_export_toronto_gait(ps, vm) ==
    IF ps = <<>>
    THEN [status |-> "ValueError", rows |-> <<>>]
    ELSE LET pbf == CSV_group_from(ps, 1, EmptyDict)
             total_frames ==
                 IF MetaTotalFrames(vm) = 0
                 THEN MaxOf({CSV_frame_key(ps[i]) : i \in 1..Len(ps)}) + 1
                 ELSE MetaTotalFrames(vm)
         IN  [status |-> "ok",
              rows |-> [k \in 1..total_frames |-> CSV_row(pbf, k - 1, MetaFps(vm))]]

\* CSVExporter.export_poses: the empty list is refused before the file is
\* opened; the rows written to output_path otherwise
CSV_export_poses(ps, vm) ==
    IF ps = <<>>
    THEN [status |-> "ValueError", rows |-> <<>>]
    ELSE CSV_export_toronto_gait(ps, vm)

NoCsv == [status |-> "none", rows |-> <<>>]

\* ------------------------------------------------------------------- state
VARIABLES
    pc,              \* position of the exporting caller
    poses,           \* the flat pose list handed to the exporters
    video_metadata,  \* the video_metadata argument of the export
    json_doc,        \* result of JSONExporter.export_poses
    csv_doc,         \* result of the Toronto Gait CSV export
    poses_by_frame,  \* the pose timeline index that was built
    lookup_frame,    \* the frame index that was looked up
    frame_poses      \* poses_by_frame.get(lookup_frame, [])

exportVars ==
    <<poses, video_metadata, json_doc, csv_doc, poses_by_frame,
      lookup_frame, frame_poses>>

\* one run of a frame loop: extract_frames of the raw or overlay extractor,
\* VideoOverlayGenerator._extract_frames_with_overlays or ._process_video
VARIABLES
    kind,            \* "raw", "overlay", "generator" or "video": which loop
    frame_range,     \* the frame_range in force: NoRange or <<start, end>>
    frame_skip,      \* config.frame_skip
    total_frames,    \* cap.get(CAP_PROP_FRAME_COUNT)
    source_frames,   \* the number of frames cap.read() really yields
    frame_count,     \* the loop's frame counter
    extracted_files, \* frame indices of the paths appended, in order
    write_failed,    \* frame indices whose _save_frame returned False
    cap_open,        \* the VideoCapture handle is open
    writer_open,     \* the VideoWriter handle is open
    has_callback,    \* a progress_callback was passed to the loop
    progress_log     \* the calls of progress_callback so far, in order

extractVars ==
    <<kind, frame_range, frame_skip, total_frames, source_frames,
      frame_count, extracted_files, write_failed, cap_open, writer_open,
      has_callback, progress_log>>

\* one call of FrameExtractionManager.extract_all_frame_types
VARIABLES
    m_pc,            \* position of extract_all_frame_types
    m_config,        \* self.config: the three switches the method reads
    m_poses,         \* the poses argument: "None", "empty" or "some"
    m_callback,      \* the caller passed a progress_callback
    m_log,           \* the calls of the caller's callback so far, in order
    m_results,       \* the results dictionary being filled
    invoked          \* the extractors whose extract_frames was called

managerVars ==
    <<m_pc, m_config, m_poses, m_callback, m_log, m_results, invoked>>

\* Pose.to_dict / from_dict and OutputManager.save_json / load_json
VARIABLES
    rt_index,        \* which pose of the list was converted
    pose_dict,       \* pose.to_dict()
    pose_back,       \* Pose.from_dict(pose_dict), as a one-element list
    json_file,       \* the content written to output_path
    loaded           \* what load_json of a new OutputManager returns

roundVars == <<rt_index, pose_dict, pose_back, json_file, loaded>>

\* a FrameExtractionConfig being constructed and used
VARIABLES
    cfg_args,        \* the arguments FrameExtractionConfig(...) was called with
    cfg_status,      \* "none", "ok" or "ValueError": how __post_init__ ended
    frame_config,    \* the config object: None or the object's fields
    range_result     \* start_frame / end_frame an extractor derives from it

configVars == <<cfg_args, cfg_status, frame_config, range_result>>

\* one call of OutputManager.export_all_formats or of cli process_video
VARIABLES
    p_pc,            \* position of the caller
    caller,          \* "export_all_formats" or "process_video"
    flags,           \* the include_* arguments / args.export_all_formats
    has_results,     \* self.results is not empty
    has_input_video, \* self._input_video_path is not None
    frame_range_arg, \* the frame_range argument: None or a tuple
    exported,        \* exported_files: what has been produced so far
    run_config,      \* the config the comprehensive extraction ran with
    frames_failed    \* the comprehensive extraction raised

pipelineVars ==
    <<p_pc, caller, flags, has_results, has_input_video, frame_range_arg,
      exported, run_config, frames_failed>>

restVars == <<configVars, pipelineVars>>

\* the surroundings of extract_all_frame_types: the file system before the
\* phases, and the callers that wrap the call
VARIABLES
    directories,     \* the output directories _create_output_directories made
    wrapper          \* what the wrapping caller ended with

orchVars == <<directories, wrapper>>

\* an OutputManager object between its calls
VARIABLES
    om_results,      \* len(self.results)
    om_input,        \* self._input_video_path: None or a path
    om_call,         \* the last generate_* / export call and how it ended
    fs_dirs          \* the output directories that exist on disk

outputVars == <<om_results, om_input, om_call, fs_dirs>>

\* one call of _draw_poses_on_frame and the _save_frame that follows it
VARIABLES
    render_config,   \* confidence_threshold and show_confidence of the config
    drawn,           \* the input frame after the call and the frame returned
    frame_written    \* the _save_frame call: the frame it was handed

renderVars == <<render_config, drawn, frame_written>>

\* filter_poses_by_validity applied once and then to its own result
VARIABLES
    filter_args,     \* confidence_threshold and min_valid_joints
    filtered,        \* filter_poses_by_validity(poses, ...)
    refiltered       \* filter_poses_by_validity(filtered, ...)

filterVars == <<filter_args, filtered, refiltered>>

lateVars == <<orchVars, outputVars, renderVars, filterVars>>

vars ==
    <<pc, exportVars, extractVars, managerVars, roundVars, restVars, lateVars>>

\* Optional[T]: None is the empty sequence, a value v is <<v>>
None_ == <<>>

Some(v) == <<v>>

NoArgs == [raw_image_quality |-> 0, overlay_image_quality |-> 0,
           raw_image_format |-> "", overlay_image_format |-> "",
           frame_range |-> None_, frame_skip |-> 0]

NoRangeResult == [status |-> "none", start_frame |-> 0, end_frame |-> 0]

ConfigIdle ==
    /\ cfg_args = NoArgs
    /\ cfg_status = "none"
    /\ frame_config = None_
    /\ range_result = NoRangeResult

NoFlags == [include_csv |-> FALSE, include_video |-> FALSE,
            include_frames |-> FALSE, include_comprehensive_frames |-> FALSE,
            export_all_formats |-> FALSE]

NothingExported == [json |-> FALSE, csv |-> {}, video |-> FALSE,
                    frames |-> FALSE, comprehensive_frames |-> FALSE]

PipelineIdle ==
    /\ p_pc = "idle"
    /\ caller = "none"
    /\ flags = NoFlags
    /\ has_results = FALSE
    /\ has_input_video = FALSE
    /\ frame_range_arg = None_
    /\ exported = NothingExported
    /\ run_config = None_
    /\ frames_failed = FALSE

RestIdle == ConfigIdle /\ PipelineIdle

NoWrapper == [who |-> "none", status |-> "none", results |-> None_]

OrchIdle ==
    /\ directories = {}
    /\ wrapper = NoWrapper

NoCall == [method |-> "none", outcome |-> "none", created |-> {},
           video |-> None_, include_video |-> FALSE, json_saved |-> FALSE,
           results |-> 0, input |-> None_]

OutputIdle ==
    /\ om_results = 0
    /\ om_input = None_
    /\ om_call = NoCall
    /\ fs_dirs = {}

NoRenderConfig == [confidence_threshold |-> 0, show_confidence |-> FALSE,
                   show_person_id |-> FALSE]

NotDrawn == [status |-> "none", input |-> {}, frame |-> {},
             overlay_frame |-> {}]

NotWritten == [called |-> FALSE, frame |-> {}, saved |-> FALSE]

RenderIdle ==
    /\ render_config = NoRenderConfig
    /\ drawn = NotDrawn
    /\ frame_written = NotWritten

NoFilterArgs == [confidence_threshold |-> 0, min_valid_joints |-> 0]

FilterIdle ==
    /\ filter_args = NoFilterArgs
    /\ filtered = <<>>
    /\ refiltered = <<>>

LateIdle == OrchIdle /\ OutputIdle /\ RenderIdle /\ FilterIdle

RoundIdle ==
    /\ rt_index = 0
    /\ pose_dict = <<>>
    /\ pose_back = <<>>
    /\ json_file = <<>>
    /\ loaded = <<>>

NoRange == <<>>

ExtractIdle ==
    /\ kind = "raw"
    /\ frame_range = NoRange
    /\ frame_skip = 1
    /\ total_frames = 0
    /\ source_frames = 0
    /\ frame_count = 0
    /\ extracted_files = <<>>
    /\ write_failed = {}
    /\ cap_open = FALSE
    /\ writer_open = FALSE
    /\ has_callback = FALSE
    /\ progress_log = <<>>

NoResults == [raw_frames |-> <<>>, overlay_frames |-> <<>>]

ManagerIdle ==
    /\ m_pc = "idle"
    /\ m_config = [extract_raw_frames |-> TRUE, extract_overlay_frames |-> TRUE,
                   enable_progress_callback |-> TRUE]
    /\ m_poses = "None"
    /\ m_callback = FALSE
    /\ m_log = <<>>
    /\ m_results = NoResults
    /\ invoked = {}

ExportIdle ==
    /\ video_metadata = NoMeta
    /\ json_doc = NoDoc
    /\ csv_doc = NoCsv
    /\ poses_by_frame = EmptyDict
    /\ lookup_frame = NoneVal
    /\ frame_poses = <<>>

Init ==
    /\ pc = "idle"
    /\ poses \in SeqsUpTo(PoseUniverse, MaxPoses)
    /\ ExportIdle
    /\ ExtractIdle
    /\ ManagerIdle
    /\ RestIdle
    /\ LateIdle
    /\ RoundIdle

\* JSONExporter.export_poses(poses, output_path, video_metadata=vm)
JSONExport(vm) ==
    /\ pc = "idle"
    /\ pc' = "json"
    /\ video_metadata' = vm
    /\ json_doc' = JSON_export_poses(poses, vm)
    /\ UNCHANGED <<extractVars, managerVars, roundVars, restVars, lateVars>>
    /\ UNCHANGED <<poses, csv_doc, poses_by_frame, lookup_frame, frame_poses>>

\* the Toronto Gait CSV export of the same poses and metadata
CSVExport ==
    /\ pc = "json"
    /\ pc' = "both"
    /\ csv_doc' = CSV_export_poses(poses, video_metadata)
    /\ UNCHANGED <<extractVars, managerVars, roundVars, restVars, lateVars>>
    /\ UNCHANGED <<poses, video_metadata, json_doc, poses_by_frame,
                   lookup_frame, frame_poses>>

\* OverlayFrameExtractor._group_poses_by_frame(poses)
GroupPoses ==
    /\ pc = "idle"
    /\ pc' = "indexed"
    /\ poses_by_frame' = Overlay_group_poses_by_frame(poses)
    /\ UNCHANGED <<extractVars, managerVars, roundVars, restVars, lateVars>>
    /\ UNCHANGED <<poses, video_metadata, json_doc, csv_doc, lookup_frame,
                   frame_poses>>

\* frame_poses = poses_by_frame.get(frame_count, [])
LookupFrame(f) ==
    /\ pc = "indexed"
    /\ pc' = "looked"
    /\ lookup_frame' = f
    /\ frame_poses' = DictGet(poses_by_frame, f)
    /\ UNCHANGED <<extractVars, managerVars, roundVars, restVars, lateVars>>
    /\ UNCHANGED <<poses, video_metadata, json_doc, csv_doc, poses_by_frame>>

Next ==
    \/ \E vm \in VideoMetadata : JSONExport(vm)
    \/ CSVExport
    \/ GroupPoses
    \/ \E f \in 0..MaxFrame : LookupFrame(f)

Spec == Init /\ [][Next]_vars

\* ================================================= the frame loops, one run
FrameRanges ==
    {NoRange} \cup
    {<<a, b>> : a \in 0..MaxVideoFrames, b \in 1..(MaxVideoFrames + 1)}

\* FrameExtractionConfig._validate_config on frame_range and frame_skip
ValidRange(r) == r = NoRange \/ r[1] < r[2]

\* the loops that apply a frame window; _process_video has none
WindowKinds == {"raw", "overlay", "generator"}

\* "Determine frame range"
start_frame == IF frame_range = NoRange THEN 0 ELSE frame_range[1]

end_frame ==
    IF frame_range = NoRange THEN total_frames
    ELSE Min2(frame_range[2], total_frames)

\* a stride test that counts frames from one
StrideSkips_from_one(fc, skip, start) == (fc + 1) % skip # 0

\* "Skip frames if configured": frame_count % config.frame_skip != 0
StrideSkips(fc, skip, start) == fc % skip # 0

\* progress = (frame_count - start_frame + 1) / (end_frame - start_frame)
WindowProgress(fc) ==
    [num |-> fc - start_frame + 1, den |-> end_frame - start_frame]

\* progress = (frame_count + 1) / total_frames
VideoProgress(fc) == [num |-> fc + 1, den |-> total_frames]

\* the decimal digits of a natural number, most significant first
RECURSIVE Digits(_)
Digits(n) == IF n < 10 THEN <<n>> ELSE Append(Digits(n \div 10), n % 10)

\* the format specification 0<width>d: zeros on the left up to the width,
\* never a truncation
RECURSIVE ZeroPad(_, _)
ZeroPad(ds, width) ==
    IF Len(ds) >= width THEN ds ELSE ZeroPad(<<0>> \o ds, width)

\* the number a digit string denotes
RECURSIVE DigitsValue(_)
DigitsValue(ds) ==
    IF ds = <<>> THEN 0
    ELSE 10 * DigitsValue(SubSeq(ds, 1, Len(ds) - 1)) + ds[Len(ds)]

\* a filename template without the zero padding: "frame_{}.{extension}"
get_frame_filename_unpadded(frame_number, image_format) ==
    [prefix |-> "frame_", digits |-> Digits(frame_number),
     extension |-> image_format]

\* FrameExtractionConfig.get_frame_filename with the default template
\* "frame_{:05d}.{extension}"
get_frame_filename(frame_number, image_format) ==
    [prefix |-> "frame_", digits |-> ZeroPad(Digits(frame_number), 5),
     extension |-> image_format]

\* config.raw_image_format / config.overlay_image_format, at their defaults
ImageFormat(k) == "jpg"

\* the path the loop builds for a retained frame: output_directory / filename
FramePath(i) == get_frame_filename(i, ImageFormat(kind))

\* a release written after the loop instead of in a finally clause
ReleaseCap_on_return_only(how) == how = "raised"

\* finally: cap.release(): whether the capture is still open after the exit
ReleaseCap(how) == FALSE

\* an exception inside _save_frame escaping to the loop
AfterSave_failure_aborts(saved) == IF saved THEN "reading" ELSE "raised"

\* _save_frame returns a bool in every case (its except clause returns False)
\* and the loop only tests it: the loop goes on
AfterSave(saved) == "reading"

\* raw_progress_callback / overlay_progress_callback handing the value on
AdjustedProgress_unscaled(phase, p) == p

\* adjusted_progress = progress * 0.5, or 0.5 + (progress * 0.5)
AdjustedProgress(phase, p) ==
    IF phase = "raw" THEN [num |-> p.num, den |-> 2 * p.den]
    ELSE [num |-> p.den + p.num, den |-> 2 * p.den]

PhaseLabel(phase) == IF phase = "raw" THEN "raw_frames" ELSE "overlay_frames"

\* the callback the manager hands to its extractor: it calls the caller's
\* callback, if there is one, with the adjusted value and the phase label
ManagerCallback(p) ==
    IF m_pc \in {"raw", "overlay"} /\ m_callback
    THEN Append(m_log, [progress |-> AdjustedProgress(m_pc, p),
                        phase |-> PhaseLabel(m_pc)])
    ELSE m_log

\* the state after a loop has opened the video
InitExtract ==
    /\ kind \in WindowKinds \cup {"video"}
    /\ pc = IF kind = "video" THEN "writer" ELSE "reading"
    /\ poses = <<>>
    /\ ExportIdle
    /\ ManagerIdle
    /\ RestIdle
    /\ LateIdle
    /\ RoundIdle
    /\ frame_range \in
          IF kind = "video" THEN {NoRange}
          ELSE {r \in FrameRanges : ValidRange(r)}
    /\ frame_skip \in 1..MaxSkip
    /\ total_frames \in 0..MaxVideoFrames
    /\ source_frames \in 0..MaxVideoFrames
    /\ frame_count = 0
    /\ extracted_files = <<>>
    /\ write_failed = {}
    /\ cap_open = TRUE
    /\ writer_open = FALSE
    /\ has_callback \in BOOLEAN
    /\ progress_log = <<>>

ConfigUnchanged ==
    UNCHANGED <<kind, frame_range, frame_skip, total_frames, source_frames,
                has_callback>>

\* leaving the loop: the finally clauses run
Exit(how) ==
    /\ pc' = how
    /\ cap_open' = ReleaseCap(how)
    /\ writer_open' = FALSE

\* out = cv2.VideoWriter(...); if not out.isOpened(): raise RuntimeError
OpenWriter(ok) ==
    /\ pc = "writer"
    /\ IF ok
       THEN /\ pc' = "reading"
            /\ writer_open' = TRUE
            /\ UNCHANGED cap_open
       ELSE Exit("raised")
    /\ ConfigUnchanged
    /\ UNCHANGED <<frame_count, extracted_files, write_failed, progress_log>>
    /\ UNCHANGED <<exportVars, managerVars, roundVars, restVars, lateVars>>

\* cap.read() returns ret = False: break
ReadExhausted ==
    /\ pc = "reading"
    /\ frame_count >= source_frames
    /\ Exit("closed")
    /\ ConfigUnchanged
    /\ UNCHANGED <<frame_count, extracted_files, write_failed, progress_log>>
    /\ UNCHANGED <<exportVars, managerVars, roundVars, restVars, lateVars>>

\* frame_count < start_frame: count the frame and continue
BeforeStart ==
    /\ pc = "reading"
    /\ kind \in WindowKinds
    /\ frame_count < source_frames
    /\ frame_count < start_frame
    /\ frame_count' = frame_count + 1
    /\ ConfigUnchanged
    /\ UNCHANGED <<pc, extracted_files, write_failed, cap_open, writer_open,
                   progress_log>>
    /\ UNCHANGED <<exportVars, managerVars, roundVars, restVars, lateVars>>

\* frame_count >= end_frame: break
ReachedEnd ==
    /\ pc = "reading"
    /\ kind \in WindowKinds
    /\ frame_count < source_frames
    /\ frame_count >= start_frame
    /\ frame_count >= end_frame
    /\ Exit("closed")
    /\ ConfigUnchanged
    /\ UNCHANGED <<frame_count, extracted_files, write_failed, progress_log>>
    /\ UNCHANGED <<exportVars, managerVars, roundVars, restVars, lateVars>>

\* the frame passed the window test of its loop, if the loop has one
InWindow ==
    kind = "video" \/ (frame_count >= start_frame /\ frame_count < end_frame)

\* the stride test drops the frame
StrideSkip ==
    /\ pc = "reading"
    /\ frame_count < source_frames
    /\ InWindow
    /\ StrideSkips(frame_count, frame_skip, start_frame)
    /\ frame_count' = frame_count + 1
    /\ ConfigUnchanged
    /\ UNCHANGED <<pc, extracted_files, write_failed, cap_open, writer_open,
                   progress_log>>
    /\ UNCHANGED <<exportVars, managerVars, roundVars, restVars, lateVars>>

\* the frame is retained by a window loop: _save_frame, append the path if it
\* succeeded, then the progress callback, which may raise
RetainFrame(saved, cb_ok) ==
    /\ pc = "reading"
    /\ kind \in WindowKinds
    /\ frame_count < source_frames
    /\ InWindow
    /\ ~ StrideSkips(frame_count, frame_skip, start_frame)
    /\ (~ has_callback => cb_ok)
    /\ IF saved
       THEN /\ extracted_files' = Append(extracted_files, frame_count)
            /\ UNCHANGED write_failed
       ELSE /\ write_failed' = write_failed \cup {frame_count}
            /\ UNCHANGED extracted_files
    /\ IF AfterSave(saved) = "raised"
       THEN /\ Exit("raised")
            /\ UNCHANGED <<frame_count, progress_log, m_log>>
       ELSE /\ IF has_callback
               THEN /\ progress_log' =
                          Append(progress_log, WindowProgress(frame_count))
                    /\ m_log' = ManagerCallback(WindowProgress(frame_count))
               ELSE UNCHANGED <<progress_log, m_log>>
            /\ IF cb_ok
               THEN /\ frame_count' = frame_count + 1
                    /\ UNCHANGED <<pc, cap_open, writer_open>>
               ELSE /\ Exit("raised")
                    /\ UNCHANGED frame_count
    /\ ConfigUnchanged
    /\ UNCHANGED <<m_pc, m_config, m_poses, m_callback, m_results, invoked>>
    /\ UNCHANGED <<exportVars, roundVars, restVars, lateVars>>

\* _process_video writes the frame: out.write(overlay_frame), then the
\* progress callback; (frame_count + 1) / total_frames raises
\* ZeroDivisionError when the metadata frame count is 0
WriteVideoFrame(cb_ok) ==
    /\ pc = "reading"
    /\ kind = "video"
    /\ frame_count < source_frames
    /\ ~ StrideSkips(frame_count, frame_skip, 0)
    /\ (~ has_callback => cb_ok)
    /\ extracted_files' = Append(extracted_files, frame_count)
    /\ IF has_callback /\ total_frames = 0
       THEN /\ Exit("raised")
            /\ UNCHANGED <<frame_count, progress_log>>
       ELSE /\ progress_log' =
                  IF has_callback
                  THEN Append(progress_log, VideoProgress(frame_count))
                  ELSE progress_log
            /\ IF cb_ok
               THEN /\ frame_count' = frame_count + 1
                    /\ UNCHANGED <<pc, cap_open, writer_open>>
               ELSE /\ Exit("raised")
                    /\ UNCHANGED frame_count
    /\ ConfigUnchanged
    /\ UNCHANGED write_failed
    /\ UNCHANGED <<exportVars, managerVars, roundVars, restVars, lateVars>>

\* cap.read(), cv2.resize, the drawing or out.write raises
RaiseInLoop ==
    /\ pc = "reading"
    /\ frame_count <= source_frames
    /\ Exit("raised")
    /\ ConfigUnchanged
    /\ UNCHANGED <<frame_count, extracted_files, write_failed, progress_log>>
    /\ UNCHANGED <<exportVars, managerVars, roundVars, restVars, lateVars>>

LoopStep ==
    \/ ReadExhausted
    \/ BeforeStart
    \/ ReachedEnd
    \/ StrideSkip
    \/ \E saved \in BOOLEAN, cb_ok \in BOOLEAN : RetainFrame(saved, cb_ok)
    \/ RaiseInLoop

NextExtract ==
    \/ LoopStep
    \/ \E ok \in BOOLEAN : OpenWriter(ok)
    \/ \E cb_ok \in BOOLEAN : WriteVideoFrame(cb_ok)

SpecExtract == InitExtract /\ [][NextExtract]_vars

\* ================== FrameExtractionManager.extract_all_frame_types, one call
Phases == {"raw", "overlay"}

\* the windows the manager's configuration is tried with
ManagerRanges == {NoRange, <<1, MaxVideoFrames - 1>>}

\* the state when extract_all_frame_types is entered; the video reports its
\* true frame count
InitManager ==
    /\ pc = "idle"
    /\ poses = <<>>
    /\ ExportIdle
    /\ RoundIdle
    /\ kind = "raw"
    /\ frame_range \in ManagerRanges
    /\ frame_skip \in 1..MaxSkip
    /\ total_frames \in 0..MaxVideoFrames
    /\ source_frames = total_frames
    /\ frame_count = 0
    /\ extracted_files = <<>>
    /\ write_failed = {}
    /\ cap_open = FALSE
    /\ writer_open = FALSE
    /\ has_callback = FALSE
    /\ progress_log = <<>>
    /\ m_pc = "entered"
    /\ m_config \in [extract_raw_frames : BOOLEAN,
                     extract_overlay_frames : BOOLEAN,
                     enable_progress_callback : BOOLEAN]
    /\ m_poses \in {"None", "empty", "some"}
    /\ m_callback \in BOOLEAN
    /\ m_log = <<>>
    /\ m_results = NoResults
    /\ invoked = {}
    /\ RestIdle
    /\ LateIdle

\* directories made on demand: only the raw one exists before the phases
DirectoriesFor_raw_only(cfg) ==
    IF cfg.extract_raw_frames THEN {"raw"} ELSE {}

\* _create_output_directories: one directory per extraction type switched on
DirectoriesFor(cfg) ==
    (IF cfg.extract_raw_frames THEN {"raw"} ELSE {})
        \cup (IF cfg.extract_overlay_frames THEN {"overlay"} ELSE {})

\* the head of extract_all_frame_types: FileNotFoundError when the video
\* path does not exist, else the output directories and the empty results
CreateOutputDirectories(exists) ==
    /\ m_pc = "entered"
    /\ IF exists
       THEN /\ m_pc' = "start"
            /\ directories' = DirectoriesFor(m_config)
       ELSE /\ m_pc' = "raised"
            /\ UNCHANGED directories
    /\ UNCHANGED wrapper
    /\ UNCHANGED <<m_config, m_poses, m_callback, m_log, m_results, invoked>>
    /\ UNCHANGED <<outputVars, renderVars, filterVars>>
    /\ UNCHANGED <<pc, exportVars, extractVars, roundVars, restVars>>

\* the overlay branch taken whenever overlay extraction is switched on
OverlayRuns_ignores_poses(cfg, ps) == cfg.extract_overlay_frames

\* if self.config.extract_overlay_frames and poses:
OverlayRuns(cfg, ps) == cfg.extract_overlay_frames /\ ps = "some"

\* if self.config.extract_raw_frames: / the overlay condition
PhaseRuns(phase) ==
    IF phase = "raw" THEN m_config.extract_raw_frames
    ELSE OverlayRuns(m_config, m_poses)

BeforePhase(phase) == IF phase = "raw" THEN "start" ELSE "after_raw"

AfterPhase(phase) == IF phase = "raw" THEN "after_raw" ELSE "returned"

\* an except clause that logs and carries on with the next phase
OnPhaseException_swallowed(phase) == AfterPhase(phase)

\* except Exception as e: self.logger.error(...); raise
OnPhaseException(phase) == "raised"

\* the extractor of the phase is called; it raises before its loop when the
\* video cannot be opened (RuntimeError) or, for the overlay extractor, when
\* poses is None (ValueError)
StartPhase(phase, opened) ==
    /\ m_pc = BeforePhase(phase)
    /\ PhaseRuns(phase)
    /\ m_pc' = phase
    /\ invoked' = invoked \cup {phase}
    /\ kind' = phase
    /\ has_callback' = m_config.enable_progress_callback
    /\ frame_count' = 0
    /\ extracted_files' = <<>>
    /\ write_failed' = {}
    /\ progress_log' = <<>>
    /\ IF opened /\ ~ (phase = "overlay" /\ m_poses = "None")
       THEN pc' = "reading" /\ cap_open' = TRUE
       ELSE pc' = "raised" /\ cap_open' = FALSE
    /\ UNCHANGED <<frame_range, frame_skip, total_frames, source_frames,
                   writer_open>>
    /\ UNCHANGED <<m_config, m_poses, m_callback, m_log, m_results>>
    /\ UNCHANGED <<exportVars, roundVars, restVars, lateVars>>

\* the phase is switched off, or it is the overlay phase without poses (the
\* elif only logs a warning)
SkipPhase(phase) ==
    /\ m_pc = BeforePhase(phase)
    /\ ~ PhaseRuns(phase)
    /\ m_pc' = AfterPhase(phase)
    /\ UNCHANGED <<m_config, m_poses, m_callback, m_log, m_results, invoked>>
    /\ UNCHANGED <<pc, exportVars, extractVars, roundVars, restVars, lateVars>>

\* extract_frames returned: results['raw_frames'] / ['overlay_frames'] = ...
PhaseReturned(phase) ==
    /\ m_pc = phase
    /\ pc = "closed"
    /\ pc' = "idle"
    /\ m_pc' = AfterPhase(phase)
    /\ m_results' =
          IF phase = "raw"
          THEN [m_results EXCEPT !.raw_frames = extracted_files]
          ELSE [m_results EXCEPT !.overlay_frames = extracted_files]
    /\ UNCHANGED <<m_config, m_poses, m_callback, m_log, invoked>>
    /\ UNCHANGED <<exportVars, extractVars, roundVars, restVars, lateVars>>

\* extract_frames raised: the except clause of the phase
PhaseRaised(phase) ==
    /\ m_pc = phase
    /\ pc = "raised"
    /\ pc' = "idle"
    /\ m_pc' = OnPhaseException(phase)
    /\ UNCHANGED <<m_config, m_poses, m_callback, m_log, m_results, invoked>>
    /\ UNCHANGED <<exportVars, extractVars, roundVars, restVars, lateVars>>

\* the callers that wrap extract_all_frame_types
Wrappers == {"generate_comprehensive_frame_extractions", "export_all_formats"}

\* how the wrapper ends.  generate_comprehensive_frame_extractions returns
\* the results or re-raises; export_all_formats stores the returned results
\* under 'comprehensive_frames' or, after an exception, logs a warning and
\* leaves the initial {} there (None_)
WrapperResult(who, ended, results) ==
    IF ended = "returned"
    THEN [who |-> who, status |-> "returned", results |-> Some(results)]
    ELSE [who |-> who,
          status |-> IF who = "export_all_formats" THEN "returned"
                     ELSE "raised",
          results |-> None_]

\* extract_all_frame_types has ended inside its wrapper; both wrappers have
\* checked that there are poses and pass them on
WrapperEnds(who) ==
    /\ m_pc \in {"returned", "raised"}
    /\ m_poses = "some"
    /\ wrapper = NoWrapper
    /\ wrapper' = WrapperResult(who, m_pc, m_results)
    /\ UNCHANGED directories
    /\ UNCHANGED <<outputVars, renderVars, filterVars>>
    /\ UNCHANGED <<pc, exportVars, extractVars, managerVars, roundVars, restVars>>

NextManager ==
    \/ \E exists \in BOOLEAN : CreateOutputDirectories(exists)
    \/ \E who \in Wrappers : WrapperEnds(who)
    \/ LoopStep
    \/ \E phase \in Phases, opened \in BOOLEAN : StartPhase(phase, opened)
    \/ \E phase \in Phases : SkipPhase(phase)
    \/ \E phase \in Phases : PhaseReturned(phase)
    \/ \E phase \in Phases : PhaseRaised(phase)

SpecManager == InitManager /\ [][NextManager]_vars

\* ============================================ FrameExtractionConfig, one object
\* str.lower() on the format names tried
Lower(str) ==
    CASE str = "JPG" -> "jpg"
      [] str = "Bmp" -> "bmp"
      [] OTHER -> str

SupportedFormats == {"jpg", "jpeg", "png", "bmp"}

\* the truth value of an Optional tuple: None and the empty tuple are false
Truthy(opt) == opt # None_ /\ opt[1] # <<>>

\* FrameExtractionConfig._validate_config, test by test
ValidateConfig(c) ==
    IF c.raw_image_quality < 0 \/ c.raw_image_quality > 100
        THEN "ValueError"
    ELSE IF c.overlay_image_quality < 0 \/ c.overlay_image_quality > 100
        THEN "ValueError"
    ELSE IF Lower(c.raw_image_format) \notin SupportedFormats
        THEN "ValueError"
    ELSE IF Lower(c.overlay_image_format) \notin SupportedFormats
        THEN "ValueError"
    ELSE IF Truthy(c.frame_range) /\ Len(c.frame_range[1]) # 2
        THEN "ValueError"
    ELSE IF Truthy(c.frame_range) /\ c.frame_range[1][1] >= c.frame_range[1][2]
        THEN "ValueError"
    ELSE IF c.frame_skip < 1
        THEN "ValueError"
    ELSE "ok"

\* the field defaults of the dataclass
DefaultConfig ==
    [raw_image_quality |-> 95, overlay_image_quality |-> 95,
     raw_image_format |-> "jpg", overlay_image_format |-> "jpg",
     frame_range |-> None_, frame_skip |-> 1]

\* the argument values a config is constructed with
QualityArgs == {-1, 0, 100, 101}

FormatArgs == {"jpg", "JPG", "bmp", "gif"}

RangeArgs ==
    {None_} \cup {Some(t) : t \in SeqsUpTo(0..MaxFrame, 2) \cup {<<0, 1, 2>>}}

SkipArgs == 0..2

ConfigArgs ==
    [raw_image_quality : QualityArgs, overlay_image_quality : {-1, 95, 101},
     raw_image_format : FormatArgs, overlay_image_format : {"png", "Bmp", "xyz"},
     frame_range : RangeArgs, frame_skip : SkipArgs]

InitConfig ==
    /\ pc = "construct"
    /\ poses = <<>>
    /\ ExportIdle
    /\ ExtractIdle
    /\ ManagerIdle
    /\ RoundIdle
    /\ RestIdle
    /\ LateIdle

\* FrameExtractionConfig(**args): __post_init__ validates
Construct(args) ==
    /\ pc = "construct"
    /\ pc' = "constructed"
    /\ cfg_args' = args
    /\ cfg_status' = ValidateConfig(args)
    /\ frame_config' = IF ValidateConfig(args) = "ok" THEN Some(args) ELSE None_
    /\ UNCHANGED <<range_result, pipelineVars>>
    /\ UNCHANGED <<exportVars, extractVars, managerVars, roundVars, lateVars>>

\* "Determine frame range" of an extractor handed the config, on a video of
\* total frames: config.frame_range[0] / [1] raise IndexError on an empty tuple
DetermineRange(total) ==
    /\ pc = "constructed"
    /\ cfg_status = "ok"
    /\ pc' = "ranged"
    /\ range_result' =
          IF frame_config[1].frame_range = None_
          THEN [status |-> "ok", start_frame |-> 0, end_frame |-> total]
          ELSE IF Len(frame_config[1].frame_range[1]) < 2
          THEN [status |-> "IndexError", start_frame |-> 0, end_frame |-> 0]
          ELSE [status |-> "ok",
                start_frame |-> frame_config[1].frame_range[1][1],
                end_frame |-> Min2(frame_config[1].frame_range[1][2], total)]
    /\ UNCHANGED <<cfg_args, cfg_status, frame_config, pipelineVars>>
    /\ UNCHANGED <<exportVars, extractVars, managerVars, roundVars, lateVars>>

NextConfig ==
    \/ \E args \in ConfigArgs : Construct(args)
    \/ \E total \in 0..MaxTotal : DetermineRange(total)

SpecConfig == InitConfig /\ [][NextConfig]_vars

\* ======================= export_all_formats and cli process_video, one call
\* list(CSVFormat)
CsvFormats == {"normalized", "wide", "summary"}

\* the configs and frame ranges a caller passes in: every config satisfied
\* the validation when it was constructed
PipelineConfigs ==
    {None_, Some(DefaultConfig),
     Some([DefaultConfig EXCEPT !.frame_range = Some(<<0, 1>>)])}

PipelineRanges == {None_, Some(<<0, 2>>), Some(<<3, 1>>)}

InitPipeline ==
    /\ pc = "pipeline"
    /\ poses = <<>>
    /\ ExportIdle
    /\ ExtractIdle
    /\ ManagerIdle
    /\ RoundIdle
    /\ LateIdle
    /\ cfg_args = NoArgs
    /\ cfg_status = "none"
    /\ range_result = NoRangeResult
    /\ frame_config \in PipelineConfigs
    /\ p_pc = "start"
    /\ caller \in {"export_all_formats", "process_video"}
    /\ flags \in
          IF caller = "export_all_formats"
          THEN [include_csv : BOOLEAN, include_video : BOOLEAN,
                include_frames : BOOLEAN,
                include_comprehensive_frames : BOOLEAN,
                export_all_formats : {FALSE}]
          ELSE [include_csv : {FALSE}, include_video : {FALSE},
                include_frames : {FALSE},
                include_comprehensive_frames : {FALSE},
                export_all_formats : BOOLEAN]
    /\ has_results \in BOOLEAN
    /\ has_input_video \in IF caller = "process_video" THEN {TRUE} ELSE BOOLEAN
    /\ frame_range_arg \in
          IF caller = "process_video" THEN {None_} ELSE PipelineRanges
    /\ exported = NothingExported
    /\ run_config = None_
    /\ frames_failed = FALSE

PipelineInputs ==
    UNCHANGED <<caller, flags, has_results, has_input_video, frame_range_arg>>

PipelineOthers ==
    /\ UNCHANGED <<pc, cfg_args, cfg_status, range_result>>
    /\ UNCHANGED <<exportVars, extractVars, managerVars, roundVars, lateVars>>

\* an except clause around the comprehensive extraction that re-raises
OnFramesException_propagates(who) == "raised"

\* except Exception as e: logger.warning(...): the caller goes on, to its
\* return statement (export_all_formats) or to its next export (process_video)
OnFramesException(who) ==
    IF who = "export_all_formats" THEN "returned" ELSE "after_frames"

\* if not self.results: raise ValueError; self.save_json(...), which lets an
\* OSError through
ExportAllSaveJson(ok) ==
    /\ caller = "export_all_formats"
    /\ p_pc = "start"
    /\ IF has_results /\ ok
       THEN /\ p_pc' = "csv"
            /\ exported' = [exported EXCEPT !.json = TRUE]
       ELSE /\ p_pc' = "raised"
            /\ UNCHANGED exported
    /\ UNCHANGED <<frame_config, run_config, frames_failed>>
    /\ PipelineInputs
    /\ PipelineOthers

\* the CSV loop: each format in its own try; done are the ones that succeeded
ExportAllCsv(done) ==
    /\ caller = "export_all_formats"
    /\ p_pc = "csv"
    /\ p_pc' = "video"
    /\ (~ flags.include_csv) => (done = {})
    /\ exported' = [exported EXCEPT !.csv = done]
    /\ UNCHANGED <<frame_config, run_config, frames_failed>>
    /\ PipelineInputs
    /\ PipelineOthers

\* the overlay video block: its failure is logged as a warning
ExportAllVideo(ok) ==
    /\ caller = "export_all_formats"
    /\ p_pc = "video"
    /\ p_pc' = "frames"
    /\ (~ (flags.include_video /\ has_input_video)) => ok
    /\ exported' =
          IF flags.include_video /\ has_input_video /\ ok
          THEN [exported EXCEPT !.video = TRUE]
          ELSE exported
    /\ UNCHANGED <<frame_config, run_config, frames_failed>>
    /\ PipelineInputs
    /\ PipelineOthers

\* the frame overlay block: its failure is logged as a warning
ExportAllFrames(ok) ==
    /\ caller = "export_all_formats"
    /\ p_pc = "frames"
    /\ p_pc' = "comprehensive"
    /\ (~ (flags.include_frames /\ has_input_video)) => ok
    /\ exported' =
          IF flags.include_frames /\ has_input_video /\ ok
          THEN [exported EXCEPT !.frames = TRUE]
          ELSE exported
    /\ UNCHANGED <<frame_config, run_config, frames_failed>>
    /\ PipelineInputs
    /\ PipelineOthers

\* "Set up frame extraction config with frame range if provided": a new
\* config when none was passed, else frame_config.frame_range = frame_range
ConfigForRun ==
    IF frame_config = None_
    THEN Some([DefaultConfig EXCEPT !.frame_range = frame_range_arg])
    ELSE IF frame_range_arg # None_
    THEN Some([frame_config[1] EXCEPT !.frame_range = frame_range_arg])
    ELSE frame_config

\* the constructor raises in the first branch only
ConfigSetupRaises ==
    frame_config = None_ /\ ValidateConfig(ConfigForRun[1]) # "ok"

\* the comprehensive block and the return statement
ExportAllComprehensive(ok) ==
    /\ caller = "export_all_formats"
    /\ p_pc = "comprehensive"
    /\ IF flags.include_comprehensive_frames /\ has_input_video
       THEN IF ConfigSetupRaises
            THEN /\ ok
                 /\ frames_failed' = TRUE
                 /\ p_pc' = OnFramesException(caller)
                 /\ UNCHANGED <<frame_config, run_config, exported>>
            ELSE /\ frame_config' = ConfigForRun
                 /\ run_config' = ConfigForRun
                 /\ frames_failed' = ~ ok
                 /\ IF ok
                    THEN /\ p_pc' = "returned"
                         /\ exported' =
                               [exported EXCEPT !.comprehensive_frames = TRUE]
                    ELSE /\ p_pc' = OnFramesException(caller)
                         /\ UNCHANGED exported
       ELSE /\ ok
            /\ p_pc' = "returned"
            /\ UNCHANGED <<frame_config, run_config, frames_failed, exported>>
    /\ PipelineInputs
    /\ PipelineOthers

\* process_video: output_manager.save_json(...), outside any try
ProcessVideoSaveJson(ok) ==
    /\ caller = "process_video"
    /\ p_pc = "start"
    /\ IF ok
       THEN /\ p_pc' = "csv"
            /\ exported' = [exported EXCEPT !.json = TRUE]
       ELSE /\ p_pc' = "raised"
            /\ UNCHANGED exported
    /\ UNCHANGED <<frame_config, run_config, frames_failed>>
    /\ PipelineInputs
    /\ PipelineOthers

\* process_video: output_manager.export_csv_advanced(...), outside any try;
\* it raises ValueError when there are no poses
ProcessVideoExportCsv(ok) ==
    /\ caller = "process_video"
    /\ p_pc = "csv"
    /\ IF has_results /\ ok
       THEN /\ p_pc' = "comprehensive"
            /\ exported' = [exported EXCEPT !.csv = {"toronto_gait"}]
       ELSE /\ p_pc' = "raised"
            /\ UNCHANGED exported
    /\ UNCHANGED <<frame_config, run_config, frames_failed>>
    /\ PipelineInputs
    /\ PipelineOthers

\* process_video: generate_comprehensive_frame_extractions in its try
ProcessVideoFrames(ok) ==
    /\ caller = "process_video"
    /\ p_pc = "comprehensive"
    /\ run_config' =
          IF frame_config = None_ THEN Some(DefaultConfig) ELSE frame_config
    /\ frames_failed' = ~ ok
    /\ IF ok
       THEN /\ p_pc' = "after_frames"
            /\ exported' = [exported EXCEPT !.comprehensive_frames = TRUE]
       ELSE /\ p_pc' = OnFramesException(caller)
            /\ UNCHANGED exported
    /\ UNCHANGED frame_config
    /\ PipelineInputs
    /\ PipelineOthers

\* process_video: output_manager.export_all_formats(..., include_json=True,
\* ...): the method has no such parameter, the call raises TypeError
ProcessVideoExportAll ==
    /\ caller = "process_video"
    /\ p_pc = "after_frames"
    /\ flags.export_all_formats
    /\ p_pc' = "raised"
    /\ UNCHANGED <<frame_config, run_config, frames_failed, exported>>
    /\ PipelineInputs
    /\ PipelineOthers

\* process_video without --export-all-formats goes on to its overlay options
ProcessVideoContinue ==
    /\ caller = "process_video"
    /\ p_pc = "after_frames"
    /\ ~ flags.export_all_formats
    /\ p_pc' = "done"
    /\ UNCHANGED <<frame_config, run_config, frames_failed, exported>>
    /\ PipelineInputs
    /\ PipelineOthers

NextPipeline ==
    \/ \E ok \in BOOLEAN : ExportAllSaveJson(ok)
    \/ \E done \in SUBSET CsvFormats : ExportAllCsv(done)
    \/ \E ok \in BOOLEAN : ExportAllVideo(ok)
    \/ \E ok \in BOOLEAN : ExportAllFrames(ok)
    \/ \E ok \in BOOLEAN : ExportAllComprehensive(ok)
    \/ \E ok \in BOOLEAN : ProcessVideoSaveJson(ok)
    \/ \E ok \in BOOLEAN : ProcessVideoExportCsv(ok)
    \/ \E ok \in BOOLEAN : ProcessVideoFrames(ok)
    \/ ProcessVideoExportAll
    \/ ProcessVideoContinue

SpecPipeline == InitPipeline /\ [][NextPipeline]_vars

\* ============================================ dict and JSON file round trip
\* a Python dict: its items in insertion order
DictHas(d, key) == \E i \in 1..Len(d) : d[i][1] = key

\* d[key]
DictItem(d, key) == d[CHOOSE i \in 1..Len(d) : d[i][1] = key][2]

\* d.get(key, default)
DictGetKey(d, key, default) == IF DictHas(d, key) THEN DictItem(d, key) ELSE default

KeyPoint_to_dict(kp) ==
    << <<"x", kp.x>>, <<"y", kp.y>>, <<"confidence", kp.confidence>> >>

KeyPoint_from_dict(data) ==
    KeyPoint(DictItem(data, "x"), DictItem(data, "y"), DictItem(data, "confidence"))

Joint_to_dict(j) ==
    << <<"name", j.name>>, <<"joint_id", j.joint_id>>,
       <<"keypoint", KeyPoint_to_dict(j.keypoint)>> >>

Joint_from_dict(data) ==
    Joint(DictItem(data, "name"), DictItem(data, "joint_id"),
          KeyPoint_from_dict(DictItem(data, "keypoint")))

Pose_to_dict(p) ==
    << <<"person_id", p.person_id>>,
       <<"frame_number", p.frame_number>>,
       <<"timestamp", p.timestamp>>,
       <<"confidence", p.confidence>>,
       <<"joints", [i \in 1..Len(p.joints) |-> Joint_to_dict(p.joints[i])]>> >>

\* a decoder that forgets the optional timestamp
Pose_from_dict_no_timestamp(data) ==
    Pose([i \in 1..Len(DictItem(data, "joints")) |->
              Joint_from_dict(DictItem(data, "joints")[i])],
         DictGetKey(data, "person_id", 0),
         DictGetKey(data, "frame_number", NoneVal),
         NoTimestamp,
         DictGetKey(data, "confidence", NoneVal))

Pose_from_dict(data) ==
    Pose([i \in 1..Len(DictItem(data, "joints")) |->
              Joint_from_dict(DictItem(data, "joints")[i])],
         DictGetKey(data, "person_id", 0),
         DictGetKey(data, "frame_number", NoneVal),
         DictGetKey(data, "timestamp", NoTimestamp),
         DictGetKey(data, "confidence", NoneVal))

\* json.dump / json.load of the leaves: None is written as null, a number as
\* its shortest repr, which json.load reads back to the same number
JsonNull == [t |-> "null", v |-> 0]

DumpNumber(v) == IF v = NoneVal THEN JsonNull ELSE [t |-> "number", v |-> v]

LoadNumber(j) == IF j.t = "null" THEN NoneVal ELSE j.v

DumpFloat(f) == IF f = NoTimestamp THEN JsonNull ELSE [t |-> "number", v |-> f]

LoadFloat(j) == IF j.t = "null" THEN NoTimestamp ELSE j.v

DumpString(str) == [t |-> "string", v |-> str]

LoadString(j) == j.v

FloatKeys == {"timestamp"}

StringKeys == {"name"}

RECURSIVE JsonDump(_)
JsonDump(d) ==
    [i \in 1..Len(d) |->
        LET key == d[i][1]
            val == d[i][2]
        IN  << key,
               IF key = "joints" THEN [q \in 1..Len(val) |-> JsonDump(val[q])]
               ELSE IF key = "keypoint" THEN JsonDump(val)
               ELSE IF key \in FloatKeys THEN DumpFloat(val)
               ELSE IF key \in StringKeys THEN DumpString(val)
               ELSE DumpNumber(val) >>]

RECURSIVE JsonLoad(_)
JsonLoad(d) ==
    [i \in 1..Len(d) |->
        LET key == d[i][1]
            val == d[i][2]
        IN  << key,
               IF key = "joints" THEN [q \in 1..Len(val) |-> JsonLoad(val[q])]
               ELSE IF key = "keypoint" THEN JsonLoad(val)
               ELSE IF key \in FloatKeys THEN LoadFloat(val)
               ELSE IF key \in StringKeys THEN LoadString(val)
               ELSE LoadNumber(val) >>]

\* OutputManager.get_results_summary
ResultsSummary(results) ==
    LET truthy == {results[i].frame_number : i \in 1..Len(results)} \ {NoneVal, 0}
        stamped == {results[i].frame_number : i \in 1..Len(results)} \ {NoneVal}
    IN  IF results = <<>>
        THEN [total_poses |-> 0, total_frames |-> 0, people_detected |-> 0,
              frames_with_poses |-> 0]
        ELSE [total_poses |-> Len(results),
              total_frames |-> (IF truthy = {} THEN 0 ELSE MaxOf(truthy)) + 1,
              people_detected |->
                  Cardinality({results[i].person_id : i \in 1..Len(results)}),
              frames_with_poses |-> Cardinality(stamped)]

\* OutputManager.create_output_data, as json.dump writes it
OutputData(results) ==
    << <<"metadata", [total_poses_detected |-> Len(results)]>>,
       <<"summary", ResultsSummary(results)>>,
       <<"poses", [i \in 1..Len(results) |-> JsonDump(Pose_to_dict(results[i]))]>> >>

\* OutputManager.load_json on the file content
LoadedPoses(file) ==
    [i \in 1..Len(DictItem(file, "poses")) |->
        Pose_from_dict(JsonLoad(DictItem(file, "poses")[i]))]

RoundStamps ==
    { <<NoneVal, NoTimestamp, NoneVal>>,
      <<0, [num |-> 7, den |-> 2], 8>>,
      <<MaxFrame, NoTimestamp, 8>> }

RoundPoses ==
    { Pose(js, pid, st[1], st[2], st[3]) :
        js \in JointLists, pid \in PersonIds, st \in RoundStamps }

InitRound ==
    /\ pc = "start"
    /\ poses \in SeqsUpTo(RoundPoses, MaxPoses)
    /\ ExportIdle
    /\ ExtractIdle
    /\ ManagerIdle
    /\ RestIdle
    /\ LateIdle
    /\ RoundIdle

\* pose.to_dict() of one of the poses
ToDict(i) ==
    /\ pc = "start"
    /\ pc' = "dict"
    /\ rt_index' = i
    /\ pose_dict' = Pose_to_dict(poses[i])
    /\ UNCHANGED <<pose_back, json_file, loaded, exportVars, extractVars, managerVars, restVars, lateVars>>

\* Pose.from_dict(pose_dict)
FromDict ==
    /\ pc = "dict"
    /\ pc' = "undict"
    /\ pose_back' = <<Pose_from_dict(pose_dict)>>
    /\ UNCHANGED <<rt_index, pose_dict, json_file, loaded, exportVars, extractVars, managerVars, restVars, lateVars>>

\* OutputManager.save_json with results = poses
SaveJson ==
    /\ pc \in {"start", "undict"}
    /\ pc' = "saved"
    /\ json_file' = OutputData(poses)
    /\ UNCHANGED <<rt_index, pose_dict, pose_back, loaded, exportVars, extractVars, managerVars, restVars, lateVars>>

\* OutputManager(output_path).load_json()
LoadJson ==
    /\ pc = "saved"
    /\ pc' = "loaded"
    /\ loaded' = LoadedPoses(json_file)
    /\ UNCHANGED <<rt_index, pose_dict, pose_back, json_file, exportVars, extractVars, managerVars, restVars, lateVars>>

NextRound ==
    \/ \E i \in 1..Len(poses) : ToDict(i)
    \/ FromDict
    \/ SaveJson
    \/ LoadJson

SpecRound == InitRound /\ [][NextRound]_vars

\* ======================================== filter_poses_by_validity, two calls
\* the poses handed to the filter: every joint list, both persons
FilterUniverse ==
    { Pose(js, st[1], 0, st[2], NoneVal) : js \in JointLists, st \in PersonStamps }

\* confidences are scaled by 10: the joints carry 0, 7 and 9
FilterThresholds == {0, 7, 8, 10}

FilterMinJoints == 0..2

\* sum(1 for joint in joints if joint.keypoint.confidence >= threshold)
RECURSIVE CountValidJoints(_, _)
CountValidJoints(joints, confidence_threshold) ==
    IF joints = <<>> THEN 0
    ELSE (IF Head(joints).keypoint.confidence >= confidence_threshold
          THEN 1 ELSE 0)
         + CountValidJoints(Tail(joints), confidence_threshold)

\* a validity test that wants the confidence above the threshold
has_valid_pose_strict(pose, confidence_threshold, min_valid_joints) ==
    IF pose.joints = <<>> THEN FALSE
    ELSE Cardinality({i \in 1..Len(pose.joints) :
            pose.joints[i].keypoint.confidence > confidence_threshold})
         >= min_valid_joints

\* has_valid_pose: a pose without joints is never valid
has_valid_pose(pose, confidence_threshold, min_valid_joints) ==
    IF pose.joints = <<>> THEN FALSE
    ELSE CountValidJoints(pose.joints, confidence_threshold) >= min_valid_joints

\* filter_poses_by_validity: the list comprehension over the input list
filter_poses_by_validity(ps, confidence_threshold, min_valid_joints) ==
    IF ps = <<>> THEN <<>>
    ELSE SelectSeq(ps, LAMBDA pose :
            has_valid_pose(pose, confidence_threshold, min_valid_joints))

InitFilter ==
    /\ pc = "filter"
    /\ poses \in SeqsUpTo(FilterUniverse, MaxPoses)
    /\ ExportIdle
    /\ ExtractIdle
    /\ ManagerIdle
    /\ RestIdle
    /\ LateIdle
    /\ RoundIdle

\* filtered = filter_poses_by_validity(poses, threshold, min_joints)
FilterOnce(threshold, min_joints) ==
    /\ pc = "filter"
    /\ pc' = "filtered"
    /\ filter_args' = [confidence_threshold |-> threshold,
                       min_valid_joints |-> min_joints]
    /\ filtered' = filter_poses_by_validity(poses, threshold, min_joints)
    /\ UNCHANGED refiltered
    /\ UNCHANGED <<orchVars, outputVars, renderVars>>
    /\ UNCHANGED <<exportVars, extractVars, managerVars, roundVars, restVars>>

\* the filter applied to its own result with the same parameters
FilterAgain ==
    /\ pc = "filtered"
    /\ pc' = "refiltered"
    /\ refiltered' =
          filter_poses_by_validity(filtered, filter_args.confidence_threshold,
                                   filter_args.min_valid_joints)
    /\ UNCHANGED <<filter_args, filtered>>
    /\ UNCHANGED <<orchVars, outputVars, renderVars>>
    /\ UNCHANGED <<exportVars, extractVars, managerVars, roundVars, restVars>>

NextFilter ==
    \/ \E threshold \in FilterThresholds, min_joints \in FilterMinJoints :
          FilterOnce(threshold, min_joints)
    \/ FilterAgain

SpecFilter == InitFilter /\ [][NextFilter]_vars

\* ============================= _draw_poses_on_frame and _save_frame, one frame
\* a frame is the set of marks it shows; a raw frame shows none of the
\* overlay's marks or already one blob of its own
RawFrames == {{}, {[shape |-> "blob", at |-> <<1, 1>>]}}

RenderThresholds == {0, 7, 8, 10}

RenderConfigs ==
    [confidence_threshold : RenderThresholds, show_confidence : BOOLEAN,
     show_person_id : BOOLEAN]

\* the connections list of _draw_skeleton
SkeletonConnections ==
    {<<"nose", "left_eye">>, <<"nose", "right_eye">>,
     <<"left_eye", "left_ear">>, <<"right_eye", "right_ear">>,
     <<"nose", "left_shoulder">>, <<"nose", "right_shoulder">>,
     <<"left_shoulder", "right_shoulder">>,
     <<"left_shoulder", "left_elbow">>, <<"left_elbow", "left_wrist">>,
     <<"right_shoulder", "right_elbow">>, <<"right_elbow", "right_wrist">>,
     <<"left_shoulder", "left_hip">>, <<"right_shoulder", "right_hip">>,
     <<"left_hip", "right_hip">>,
     <<"left_hip", "left_knee">>, <<"left_knee", "left_ankle">>,
     <<"right_hip", "right_knee">>, <<"right_knee", "right_ankle">>}

\* valid_joints = [joint for joint in pose.joints
\*                 if joint.keypoint.confidence >= config.confidence_threshold]
ValidJoints(pose, config) ==
    SelectSeq(pose.joints,
              LAMBDA joint : joint.keypoint.confidence >= config.confidence_threshold)

PointOf(joint) == <<joint.keypoint.x, joint.keypoint.y>>

\* joint_dict[name]: the last joint of that name
JointNamed(joints, name) ==
    joints[MaxOf({i \in 1..Len(joints) : joints[i].name = name})]

HasJoint(joints, name) == \E i \in 1..Len(joints) : joints[i].name = name

\* _draw_skeleton: a line for every connection both ends of which are valid
DrawSkeleton(joints) ==
    {[shape |-> "line", at |-> PointOf(JointNamed(joints, c[1])),
      to |-> PointOf(JointNamed(joints, c[2]))] :
        c \in {d \in SkeletonConnections :
                  HasJoint(joints, d[1]) /\ HasJoint(joints, d[2])}}

\* _draw_joints: a filled circle at every valid joint
DrawJoints(joints) ==
    {[shape |-> "circle", at |-> PointOf(joints[i])] : i \in 1..Len(joints)}

\* the joint the label is put above: the first head joint, else joints[0]
TextJoint(joints) ==
    IF HasJoint(joints, "nose") THEN JointNamed(joints, "nose")
    ELSE IF HasJoint(joints, "left_eye") THEN JointNamed(joints, "left_eye")
    ELSE IF HasJoint(joints, "right_eye") THEN JointNamed(joints, "right_eye")
    ELSE joints[1]

\* f"{pose.confidence:.2f}" raises TypeError when pose.confidence is None
PersonInfoRaises(pose, config) ==
    config.show_confidence /\ pose.confidence = NoneVal

\* _draw_person_info: the label, 10 pixels above the text joint
DrawPersonInfo(pose, joints, config) ==
    IF config.show_person_id \/ config.show_confidence
    THEN {[shape |-> "text",
           at |-> <<TextJoint(joints).keypoint.x,
                    TextJoint(joints).keypoint.y - 10>>,
           person_id |-> IF config.show_person_id THEN pose.person_id
                         ELSE NoPersonId,
           confidence |-> IF config.show_confidence THEN pose.confidence
                          ELSE NoneVal]}
    ELSE {}

\* the loop over the poses, drawing into out: a pose without valid joints is
\* skipped (continue)
RECURSIVE DrawFrom(_, _, _, _)
DrawFrom(ps, i, out, config) ==
    IF i > Len(ps) THEN [status |-> "ok", overlay_frame |-> out]
    ELSE LET valid_joints == ValidJoints(ps[i], config)
             marks == DrawSkeleton(valid_joints) \cup DrawJoints(valid_joints)
         IN  IF valid_joints = <<>> THEN DrawFrom(ps, i + 1, out, config)
             ELSE IF PersonInfoRaises(ps[i], config)
             THEN [status |-> "TypeError", overlay_frame |-> out \cup marks]
             ELSE DrawFrom(ps, i + 1,
                           out \cup marks
                               \cup DrawPersonInfo(ps[i], valid_joints, config),
                           config)

\* a renderer that draws into the frame it was handed
FrameAfterDraw_in_place(frame, overlay_frame) == overlay_frame

\* overlay_frame = frame.copy(): the caller's frame after the call
FrameAfterDraw(frame, overlay_frame) == frame

\* _draw_poses_on_frame(frame, poses, config)
DrawPosesOnFrame(frame, ps, config) ==
    LET result == DrawFrom(ps, 1, frame, config)
    IN  [status |-> result.status,
         input |-> frame,
         frame |-> FrameAfterDraw(frame, result.overlay_frame),
         overlay_frame |-> result.overlay_frame]

InitRender ==
    /\ pc = "frame"
    /\ poses \in SeqsUpTo(FilterUniverse, MaxPoses)
    /\ ExportIdle
    /\ ExtractIdle
    /\ ManagerIdle
    /\ RestIdle
    /\ RoundIdle
    /\ OrchIdle
    /\ OutputIdle
    /\ FilterIdle
    /\ render_config = NoRenderConfig
    /\ drawn \in {[status |-> "none", input |-> f, frame |-> f,
                   overlay_frame |-> {}] : f \in RawFrames}
    /\ frame_written = NotWritten

\* the body of the overlay loop for a retained frame: draw the frame's poses,
\* then _save_frame(overlay_frame, ...), which reports success or failure; an
\* exception in the drawing leaves the loop before the save
RenderFrame(config, saved) ==
    /\ pc = "frame"
    /\ render_config' = config
    /\ drawn' = DrawPosesOnFrame(drawn.frame, poses, config)
    /\ IF drawn'.status = "ok"
       THEN /\ pc' = "rendered"
            /\ frame_written' = [called |-> TRUE,
                                 frame |-> drawn'.overlay_frame,
                                 saved |-> saved]
       ELSE /\ pc' = "raised"
            /\ ~ saved
            /\ UNCHANGED frame_written
    /\ UNCHANGED <<orchVars, outputVars, filterVars>>
    /\ UNCHANGED <<exportVars, extractVars, managerVars, roundVars, restVars>>

NextRender ==
    \E config \in RenderConfigs, saved \in BOOLEAN : RenderFrame(config, saved)

SpecRender == InitRender /\ [][NextRender]_vars

\* ============================ an OutputManager object and its generate calls
\* the pose collection is tracked by its length, up to MaxResults
MaxResults == 3

Generators ==
    {"generate_overlay_video", "generate_frame_overlays",
     "generate_comprehensive_frame_extractions"}

GuardErrors ==
    {"ValueError: no poses", "ValueError: no input video", "FileNotFoundError"}

\* guards that look at the input video path before the pose collection
GenerateGuards_path_first(results, input) ==
    IF input = None_ THEN "ValueError: no input video"
    ELSE IF ~ input[1].exists THEN "FileNotFoundError"
    ELSE IF results = 0 THEN "ValueError: no poses"
    ELSE "passed"

\* the three guards at the head of every generate_* method, in their order:
\* if not self.results / if self._input_video_path is None /
\* if not self._input_video_path.exists()
GenerateGuards(results, input) ==
    IF results = 0 THEN "ValueError: no poses"
    ELSE IF input = None_ THEN "ValueError: no input video"
    ELSE IF ~ input[1].exists THEN "FileNotFoundError"
    ELSE "passed"

\* the directories a generate_* method makes once its guards have passed:
\* output_video_path.parent, the <name>_frames directory, or the raw and
\* overlay directories of the extraction manager
DirectoriesOf(method) ==
    CASE method = "generate_overlay_video" -> {"video_parent"}
      [] method = "generate_frame_overlays" -> {"frames"}
      [] OTHER -> {"raw", "overlay"}

\* OutputManager(output_path): no results, no input video path
InitOutput ==
    /\ pc = "manager"
    /\ poses = <<>>
    /\ ExportIdle
    /\ ExtractIdle
    /\ ManagerIdle
    /\ RestIdle
    /\ LateIdle
    /\ RoundIdle

OutputOthers ==
    /\ UNCHANGED <<orchVars, renderVars, filterVars>>
    /\ UNCHANGED <<pc, exportVars, extractVars, managerVars, roundVars, restVars>>

\* add_pose(pose): self.results.append(pose)
AddPose ==
    /\ om_results < MaxResults
    /\ om_results' = om_results + 1
    /\ UNCHANGED <<om_input, om_call, fs_dirs>>
    /\ OutputOthers

\* add_poses(poses): self.results.extend(poses), also with an empty list
AddPoses(n) ==
    /\ om_results + n <= MaxResults
    /\ om_results' = om_results + n
    /\ UNCHANGED <<om_input, om_call, fs_dirs>>
    /\ OutputOthers

\* clear_results(): self.results.clear()
ClearResults ==
    /\ om_results' = 0
    /\ UNCHANGED <<om_input, om_call, fs_dirs>>
    /\ OutputOthers

\* set_input_video_path(video_path): Path(video_path), existing or not
SetInputVideoPath(exists) ==
    /\ om_input' = Some([exists |-> exists])
    /\ UNCHANGED <<om_results, om_call, fs_dirs>>
    /\ OutputOthers

\* one of the generate_* methods: guards, then the directory, then the
\* generator, which returns or raises
Generate(method, ok) ==
    /\ LET guard == GenerateGuards(om_results, om_input)
           made == IF guard = "passed" THEN DirectoriesOf(method) ELSE {}
       IN  /\ (guard # "passed") => ok
           /\ fs_dirs' = fs_dirs \cup made
           /\ om_call' =
                 [method |-> method,
                  outcome |-> IF guard # "passed" THEN guard
                              ELSE IF ok THEN "returned" ELSE "raised",
                  created |-> made \ fs_dirs,
                  video |-> None_,
                  include_video |-> FALSE,
                  json_saved |-> FALSE,
                  results |-> om_results,
                  input |-> om_input]
    /\ UNCHANGED <<om_results, om_input>>
    /\ OutputOthers

\* export_all_formats(input_file, include_video=...): ValueError without
\* poses, save_json (which lets OSError through), then the video block, whose
\* exceptions are logged as warnings
ExportAll(include_video, json_ok, ok) ==
    /\ LET runs == om_results > 0 /\ json_ok /\ include_video
                      /\ om_input # None_
           guard == GenerateGuards(om_results, om_input)
           made == IF runs /\ guard = "passed"
                   THEN DirectoriesOf("generate_overlay_video") ELSE {}
       IN  /\ (~ (runs /\ guard = "passed")) => ok
           /\ (om_results = 0) => json_ok
           /\ fs_dirs' = fs_dirs \cup made
           /\ om_call' =
                 [method |-> "export_all_formats",
                  outcome |-> IF om_results = 0 THEN "ValueError: no poses"
                              ELSE IF ~ json_ok THEN "OSError"
                              ELSE "returned",
                  created |-> made \ fs_dirs,
                  video |-> IF runs /\ guard = "passed" /\ ok
                            THEN Some("output.mp4") ELSE None_,
                  include_video |-> include_video,
                  json_saved |-> om_results > 0 /\ json_ok,
                  results |-> om_results,
                  input |-> om_input]
    /\ UNCHANGED <<om_results, om_input>>
    /\ OutputOthers

NextOutput ==
    \/ AddPose
    \/ \E n \in 0..2 : AddPoses(n)
    \/ ClearResults
    \/ \E exists \in BOOLEAN : SetInputVideoPath(exists)
    \/ \E method \in Generators, ok \in BOOLEAN : Generate(method, ok)
    \/ \E include_video \in BOOLEAN, json_ok \in BOOLEAN, ok \in BOOLEAN :
          ExportAll(include_video, json_ok, ok)

SpecOutput == InitOutput /\ [][NextOutput]_vars

\* ===================================================== exporter properties
JsonDone == pc \in {"json", "both"}

UsedFps ==
    IF video_metadata.present /\ video_metadata.fps # Absent
    THEN video_metadata.fps ELSE 30

\* the frame an unstamped pose belongs to according to the data model
StampOrZero(p) == IF p.frame_number = NoneVal THEN 0 ELSE p.frame_number

PosesAt(i) == {j \in 1..Len(poses) : poses[j].frame_number = i}

FirstAt(i) == poses[CHOOSE j \in PosesAt(i) : \A l \in PosesAt(i) : j <= l]

\* the triples a pose offers for a Toronto joint name
Offered(p, name) ==
    {Triple(p.joints[q]) : q \in {r \in 1..Len(p.joints) :
                                    TORONTO_GAIT_JOINT_MAPPING(p.joints[r].name) = name}}

TakenFrom(p, kps) ==
    \A name \in TorontoNames :
        IF Offered(p, name) = {} THEN kps[name] = ZeroTriple
        ELSE kps[name] \in Offered(p, name)

\* the frame count the data model assigns: metadata when it has one, else
\* max(frame_number) + 1 with unstamped poses at frame 0
C3_ClaimedTotal ==
    IF video_metadata.present /\ video_metadata.total_frames # Absent
       /\ video_metadata.total_frames > 0
    THEN video_metadata.total_frames
    ELSE MaxOf({StampOrZero(poses[j]) : j \in 1..Len(poses)}) + 1

\* C3 (as claimed): the Toronto Gait JSON export of any non-empty pose set
\* emits exactly N frame records, N being the video metadata's total_frames
\* when one is given and max(frame_number) + 1 otherwise (an unstamped pose
\* counting as frame 0), and every frame without a pose is all (0, 0, 0).
C3_Claim ==
    (JsonDone /\ poses # <<>>) =>
        /\ json_doc.status = "ok"
        /\ Len(json_doc.frames) = C3_ClaimedTotal
        /\ \A k \in 1..Len(json_doc.frames) :
              (\A j \in 1..Len(poses) : StampOrZero(poses[j]) # k - 1)
                 => json_doc.frames[k].keypoints = ZeroKeypoints

\* C4 (as claimed): whenever both Toronto Gait exports of one pose set are
\* produced they have the same number of frames and agree, frame by frame, on
\* the time value and on every joint's (x, y, confidence).
C4_Claim ==
    (pc = "both" /\ json_doc.status = "ok" /\ csv_doc.status = "ok") =>
        /\ Len(json_doc.frames) = Len(csv_doc.rows)
        /\ \A k \in 1..Len(json_doc.frames) :
              /\ json_doc.frames[k].timestamp = csv_doc.rows[k].time
              /\ json_doc.frames[k].keypoints = csv_doc.rows[k].joints

C6_Theorem ==
    (JsonDone /\ json_doc.status = "ok") =>
        \A k \in 1..Len(json_doc.frames) :
            PosesAt(k - 1) # {} =>
                /\ json_doc.frames[k].person_id = FirstAt(k - 1).person_id
                /\ TakenFrom(FirstAt(k - 1), json_doc.frames[k].keypoints)

C6_Witness ==
    /\ JsonDone /\ json_doc.status = "ok"
    /\ \E k \in 1..Len(json_doc.frames) :
          /\ Cardinality(PosesAt(k - 1)) >= 2
          /\ \E j \in PosesAt(k - 1) :
                /\ poses[j].person_id # FirstAt(k - 1).person_id
                /\ ~ TakenFrom(poses[j], json_doc.frames[k].keypoints)

C8_Theorem ==
    (pc \in {"indexed", "looked"}) =>
        /\ DOMAIN poses_by_frame = {poses[j].frame_number : j \in 1..Len(poses)}
        /\ \A key \in DOMAIN poses_by_frame :
              poses_by_frame[key] =
                  SelectSeq(poses, LAMBDA p : p.frame_number = key)

C8_Witness ==
    /\ pc = "indexed"
    /\ Len(poses) = 2
    /\ poses[1].frame_number = poses[2].frame_number
    /\ poses[1] # poses[2]
    /\ Len(poses_by_frame[poses[1].frame_number]) = 2

\* the poses whose frame_number was never stamped
Unstamped == {j \in 1..Len(poses) : poses[j].frame_number = NoneVal}

\* C9 (as claimed): an unstamped pose (frame_number None) belongs to frame 0
\* in the pose timeline index, in the overlay extractor's lookup and in the
\* Toronto Gait export, whose derived frame count treats it as frame 0.
C9_Claim ==
    /\ (pc \in {"indexed", "looked"}) =>
          \A j \in Unstamped :
              /\ 0 \in DOMAIN poses_by_frame
              /\ poses[j] \in Range(poses_by_frame[0])
    /\ (pc = "looked" /\ lookup_frame = 0) =>
          \A j \in Unstamped : poses[j] \in Range(frame_poses)
    /\ (JsonDone /\ Unstamped # {}) =>
          /\ json_doc.status = "ok"
          /\ Len(json_doc.frames) >= 1
          /\ json_doc.frames[1].person_id # -1

\* ==================================================== extractor properties
Returned == pc = "closed"

\* the run the selection claims are about: the source yields as many frames
\* as its metadata says and every write succeeds
CleanRun ==
    /\ Returned
    /\ kind \in {"raw", "overlay"}
    /\ write_failed = {}
    /\ source_frames = total_frames

\* C1 (as claimed): the frame at index i is persisted if and only if
\* start <= i < end (end clamped to the frame count) and
\* (i - start) mod k == 0.
C1_Claim ==
    CleanRun =>
        Range(extracted_files) =
            {i \in 0..(total_frames - 1) :
                /\ start_frame <= i
                /\ i < end_frame
                /\ (i - start_frame) % frame_skip = 0}

\* C2 (as claimed): for start < end <= frame count and skip >= 1 the
\* extractor writes ceil((end - start) / skip) frames.
C2_Claim ==
    (CleanRun /\ start_frame < end_frame
        /\ (frame_range # NoRange => frame_range[2] <= total_frames)) =>
        Len(extracted_files) =
            (end_frame - start_frame + frame_skip - 1) \div frame_skip

\* ==================================================== round-trip properties
\* C10: Pose.from_dict(p.to_dict()) equals p field by field, and load_json
\* after save_json returns the poses that were saved, in order.
C10_Theorem ==
    /\ (pc \in {"undict", "saved", "loaded"} /\ rt_index # 0) =>
          /\ pose_back[1].joints = poses[rt_index].joints
          /\ pose_back[1].person_id = poses[rt_index].person_id
          /\ pose_back[1].confidence = poses[rt_index].confidence
          /\ pose_back[1].frame_number = poses[rt_index].frame_number
          /\ pose_back[1].timestamp = poses[rt_index].timestamp
    /\ (pc = "loaded") => loaded = poses

C10_Witness ==
    /\ pc = "loaded"
    /\ rt_index # 0
    /\ poses[rt_index].joints # <<>>
    /\ poses[rt_index].timestamp # NoTimestamp
    /\ Len(loaded) = 2
    /\ \E i \in 1..2 : poses[i].frame_number = NoneVal /\ poses[i].confidence = NoneVal

\* ==================================================== frame-loop properties
Exited == pc \in {"closed", "raised"}

\* the frames a window loop lets through to its save step
Selected ==
    {i \in 0..(source_frames - 1) :
        /\ start_frame <= i
        /\ i < end_frame
        /\ ~ StrideSkips(i, frame_skip, start_frame)}

Ascending(s) == \A i \in 1..Len(s), j \in 1..Len(s) : i < j => s[i] < s[j]

Last(s) == s[Len(s)]

\* C13: when a run of extract_frames (raw, overlay),
\* _extract_frames_with_overlays or _process_video has ended, by source
\* exhaustion, by reaching the end frame or by an exception, every capture
\* and writer handle it opened has been released.
C13_Theorem == Exited => (~ cap_open /\ ~ writer_open)

C13_Witness ==
    /\ pc = "raised"
    /\ kind = "video"
    /\ extracted_files # <<>>
    /\ progress_log # <<>>
    /\ ~ cap_open
    /\ ~ writer_open

C14_Result ==
    (pc = "closed" /\ kind \in WindowKinds) =>
        /\ write_failed \subseteq Selected
        /\ Range(extracted_files) = Selected \ write_failed
        /\ Ascending(extracted_files)

C14_Step ==
    (write_failed' # write_failed) =>
        \/ pc' = "reading" /\ frame_count' = frame_count + 1
        \/ has_callback /\ Len(progress_log') = Len(progress_log) + 1

\* C14: a failed write of one frame never aborts an extractor run: the step
\* that records the failure leaves the loop running (an exit in that step
\* comes from the progress callback, called after the failed write), and a
\* run that returns has exactly the retained frames whose write did not
\* fail, in frame order.
C14_Theorem == [] C14_Result /\ [][C14_Step]_vars

C14_Witness ==
    /\ pc = "closed"
    /\ kind \in {"raw", "overlay"}
    /\ extracted_files # <<>>
    /\ \E f \in write_failed :
          \E i \in 1..Len(extracted_files) : extracted_files[i] > f

\* C15 (as claimed): with a progress callback the raw or overlay extractor
\* reports (i - start + 1) / (end - start) at each retained frame i, and when
\* the run ends having completed the window at end the last value reported
\* is exactly 1.0, for every frame_skip >= 1.
C15_Claim ==
    (kind \in {"raw", "overlay"} /\ has_callback) =>
        /\ \A n \in 1..Len(progress_log) :
              \E i \in Selected : progress_log[n] = WindowProgress(i)
        /\ (pc = "closed" /\ frame_count >= end_frame /\ progress_log # <<>>) =>
              Last(progress_log).num = Last(progress_log).den

InUnitInterval(p) == p.den > 0 /\ 0 <= p.num /\ p.num <= p.den

\* C16 (as claimed): every progress value passed to a callback by the raw
\* extractor, the overlay extractor, VideoOverlayGenerator and
\* FrameExtractionManager lies in [0, 1], whatever the metadata frame count,
\* the number of frames the source yields, the window and the skip.
C16_Claim ==
    /\ \A n \in 1..Len(progress_log) : InUnitInterval(progress_log[n])
    /\ \A n \in 1..Len(m_log) : InUnitInterval(m_log[n].progress)

\* ======================================================= manager properties
BothEnabled == m_config.extract_raw_frames /\ m_config.extract_overlay_frames

\* the entries of the caller's callback log that carry the phase label
LoggedAs(label) == {n \in 1..Len(m_log) : m_log[n].phase = label}

\* C17 (as claimed): with both extraction types enabled the caller's
\* callback gets phase "raw_frames" only with values in [0, 0.5) and phase
\* "overlay_frames" only with values in [0.5, 1.0).
C17_Claim ==
    BothEnabled =>
        /\ \A n \in LoggedAs("raw_frames") :
              /\ 0 <= m_log[n].progress.num
              /\ 2 * m_log[n].progress.num < m_log[n].progress.den
        /\ \A n \in LoggedAs("overlay_frames") :
              /\ m_log[n].progress.den <= 2 * m_log[n].progress.num
              /\ m_log[n].progress.num < m_log[n].progress.den

\* the callback calls of the running phase are the last ones of the log
PhaseEntry(n) == m_log[Len(m_log) - Len(progress_log) + n]

\* C17 (amended): with both extraction types enabled the caller's callback
\* gets phase "raw_frames" only with values in (0, 0.5] and phase
\* "overlay_frames" only with values in (0.5, 1.0]; each value is the
\* extractor's local progress p remapped, to p / 2 in the raw phase and to
\* 1/2 + p / 2 in the overlay phase.
C17_Theorem ==
    BothEnabled =>
        /\ \A n \in LoggedAs("raw_frames") :
              /\ 0 < m_log[n].progress.num
              /\ 2 * m_log[n].progress.num <= m_log[n].progress.den
        /\ \A n \in LoggedAs("overlay_frames") :
              /\ m_log[n].progress.den < 2 * m_log[n].progress.num
              /\ m_log[n].progress.num <= m_log[n].progress.den
        /\ (m_pc \in Phases /\ m_callback) =>
              /\ Len(progress_log) <= Len(m_log)
              /\ \A n \in 1..Len(progress_log) :
                    /\ PhaseEntry(n).phase = PhaseLabel(m_pc)
                    /\ PhaseEntry(n).progress.num * 2 * progress_log[n].den =
                          PhaseEntry(n).progress.den *
                             (IF m_pc = "raw" THEN progress_log[n].num
                              ELSE progress_log[n].den + progress_log[n].num)

C17_Witness ==
    /\ BothEnabled
    /\ m_pc = "returned"
    /\ \E n \in LoggedAs("raw_frames") :
          2 * m_log[n].progress.num = m_log[n].progress.den
    /\ \E n \in LoggedAs("overlay_frames") :
          m_log[n].progress.num = m_log[n].progress.den
    /\ \E n \in LoggedAs("overlay_frames") :
          m_log[n].progress.num < m_log[n].progress.den

NoPosesGiven == m_config.extract_overlay_frames /\ m_poses \in {"None", "empty"}

\* C18: with overlay extraction enabled and poses empty or None the overlay
\* phase is skipped without raising: the overlay extractor is never invoked,
\* the callback is never called with "overlay_frames", a call that raises
\* raised on a missing video or in the raw phase, and a call that returns
\* has an empty overlay_frames list and the raw extractor's list as
\* raw_frames.
C18_Theorem ==
    NoPosesGiven =>
        /\ "overlay" \notin invoked
        /\ LoggedAs("overlay_frames") = {}
        /\ (m_pc = "raised" /\ invoked # {}) =>
              (kind = "raw" /\ "raw" \in invoked)
        /\ (m_pc = "returned") =>
              /\ m_results.overlay_frames = <<>>
              /\ m_results.raw_frames =
                    IF "raw" \in invoked THEN extracted_files ELSE <<>>

C18_Witness ==
    /\ NoPosesGiven
    /\ m_poses = "empty"
    /\ m_pc = "returned"
    /\ m_callback
    /\ m_log # <<>>
    /\ m_results.raw_frames # <<>>

C19_Step ==
    /\ (m_pc \in Phases /\ pc = "raised") =>
          (m_pc' = "raised" /\ m_results' = m_results /\ invoked' = invoked)
    /\ (m_pc = "raised") => (m_pc' = "raised")

C19_State ==
    (m_pc = "raised" /\ kind = "raw") =>
        ("overlay" \notin invoked /\ m_results = NoResults)

\* C19: a failure inside a phase propagates: when the raw or the overlay
\* extractor raises, extract_all_frame_types raises too and never returns a
\* result afterwards; after a raw failure the overlay extractor has not been
\* started and nothing was stored in the results.
C19_Theorem == [] C19_State /\ [][C19_Step]_vars

C19_Witness ==
    /\ m_pc = "raised"
    /\ kind = "raw"
    /\ OverlayRuns(m_config, m_poses)
    /\ extracted_files # <<>>
    /\ "overlay" \notin invoked

\* ================================================= configuration properties
\* the invariants of a configuration: both qualities in [0, 100], both
\* formats among jpg, jpeg, png, bmp (letter case aside), frame_range absent
\* or a pair with start < end, frame_skip >= 1
SatisfiesInvariants(c) ==
    /\ c.raw_image_quality \in 0..100
    /\ c.overlay_image_quality \in 0..100
    /\ Lower(c.raw_image_format) \in SupportedFormats
    /\ Lower(c.overlay_image_format) \in SupportedFormats
    /\ \/ c.frame_range = None_
       \/ /\ Len(c.frame_range[1]) = 2
          /\ c.frame_range[1][1] < c.frame_range[1][2]
    /\ c.frame_skip >= 1

\* C11 (as claimed): constructing a FrameExtractionConfig raises ValueError
\* if and only if one of the invariants is violated, so every config object
\* that exists after construction satisfies all of them.
C11_Claim ==
    (cfg_status # "none") =>
        /\ (cfg_status = "ValueError") <=> ~ SatisfiesInvariants(cfg_args)
        /\ (frame_config # None_) => SatisfiesInvariants(frame_config[1])

\* ====================================================== pipeline properties
C12_Immutable == (frame_config # None_) => (frame_config' = frame_config)

C12_ValidWhenRun ==
    (run_config # None_) => SatisfiesInvariants(run_config[1])

\* C12 (as claimed): no pipeline operation changes a field of a
\* FrameExtractionConfig after its construction, so the validated invariants
\* hold whenever an extraction runs.
C12_Claim == [][C12_Immutable]_vars /\ [] C12_ValidWhenRun

C20_State ==
    frames_failed =>
        /\ exported.json
        /\ ~ exported.comprehensive_frames
        /\ (caller = "export_all_formats") => (p_pc = "returned")
        /\ (caller = "process_video") =>
              (exported.csv # {} /\ p_pc \in {"after_frames", "done", "raised"})

C20_Step ==
    (frames_failed' /\ ~ frames_failed) =>
        /\ exported' = exported
        /\ p_pc' = IF caller = "export_all_formats" THEN "returned"
                   ELSE "after_frames"

\* C20: a failure of the comprehensive frame extraction does not prevent the
\* sibling exports: the step in which it raises leaves export_all_formats at
\* its return and process_video at its next statement, with the JSON, CSV
\* and video entries produced before it untouched.
C20_Theorem == [] C20_State /\ [][C20_Step]_vars

C20_Witness ==
    /\ frames_failed
    /\ caller = "export_all_formats"
    /\ p_pc = "returned"
    /\ exported.json
    /\ exported.csv = CsvFormats
    /\ exported.video

\* ======================================= document metadata of the JSON export
\* C29: in every Toronto Gait JSON document that is written,
\* metadata.total_frames equals the number of entries of frames, whatever the
\* pose set and the video metadata are (total_frames 0 or missing included).
C29_Claim ==
    (JsonDone /\ json_doc.status = "ok")
        => json_doc.total_frames = Len(json_doc.frames)

\* ================================================= export of an empty list
\* C23: JSONExporter.export_poses and CSVExporter.export_poses called with an
\* empty pose list raise ValueError and write no document, whatever video
\* metadata accompanies the call.
C23_Theorem ==
    poses = <<>> =>
        /\ JsonDone =>
              /\ json_doc.status = "ValueError"
              /\ json_doc.frames = <<>>
        /\ pc = "both" =>
              /\ csv_doc.status = "ValueError"
              /\ csv_doc.rows = <<>>

\* both exporters were called with no poses and metadata announcing 2 frames
C23_Witness ==
    /\ pc = "both"
    /\ poses = <<>>
    /\ video_metadata.present
    /\ video_metadata.total_frames = MaxTotal
    /\ json_doc.status = "ValueError"
    /\ csv_doc.status = "ValueError"

\* ============================================ the frames of the output video
\* the indices _process_video selects among the frames the source yields
VideoSelected == {i \in 0..(source_frames - 1) : i % frame_skip = 0}

\* C22: _process_video writes frames in strictly increasing index order, each
\* selected index at most once and no other index; when the source is
\* exhausted every selected index was written exactly once, which for
\* frame_skip k over n decoded frames is ceil(n / k) frames.
C22_Theorem ==
    kind = "video" =>
        /\ Ascending(extracted_files)
        /\ Range(extracted_files) \subseteq VideoSelected
        /\ Returned =>
              /\ Range(extracted_files) = VideoSelected
              /\ Len(extracted_files) =
                    (source_frames + frame_skip - 1) \div frame_skip

\* a video of 4 decoded frames written with frame_skip 3: frames 0 and 3
C22_Witness ==
    /\ kind = "video"
    /\ Returned
    /\ source_frames = MaxVideoFrames
    /\ frame_skip = MaxSkip
    /\ Len(extracted_files) = (MaxVideoFrames + MaxSkip - 1) \div MaxSkip
    /\ Len(extracted_files) >= 2
    /\ Len(extracted_files) < source_frames


\* the frame indices a finished loop retained, written successfully or not
Retained == Range(extracted_files) \cup write_failed

\* ================================================ the paths of a frame run
\* the list extract_frames returns, as paths
ExtractedPaths ==
    [j \in 1..Len(extracted_files) |-> FramePath(extracted_files[j])]

\* C26: the path list of the raw and overlay extract_frames is in strictly
\* increasing frame-index order and holds no path twice; each path is named
\* frame_<index as 5 zero-padded digits>.<format> for a retained index, and no
\* two retained frames of the run have the same file name.
C26_Theorem ==
    kind \in {"raw", "overlay"} =>
        /\ Ascending(extracted_files)
        /\ \A i \in 1..Len(ExtractedPaths), j \in 1..Len(ExtractedPaths) :
              i # j => ExtractedPaths[i] # ExtractedPaths[j]
        /\ \A j \in 1..Len(ExtractedPaths) :
              /\ ExtractedPaths[j].prefix = "frame_"
              /\ Len(ExtractedPaths[j].digits) = 5
              /\ DigitsValue(ExtractedPaths[j].digits) = extracted_files[j]
              /\ ExtractedPaths[j].extension = ImageFormat(kind)
              /\ extracted_files[j] \in Retained
        /\ \A a \in Retained, b \in Retained :
              a # b => FramePath(a) # FramePath(b)

\* an overlay run that returned three paths: frame_00001, _00002, _00003
C26_Witness ==
    /\ Returned
    /\ kind = "overlay"
    /\ Len(extracted_files) = 3
    /\ ExtractedPaths[1].digits = <<0, 0, 0, 0, 1>>
    /\ ExtractedPaths[3].digits = <<0, 0, 0, 0, 3>>
    /\ write_failed = {}

\* ========================================== the copies of the selection logic
\* the selection over n decoded frames with window [s, e) and stride k,
\* stated once and without reference to the loop that applies it
SelectionOf(n, s, e, k) ==
    {i \in 0..(n - 1) : s <= i /\ i < e /\ i % k = 0}

\* the window in force; the default window is the whole video as its
\* metadata counts it, and an end beyond that count is clamped to it
WindowStart == IF frame_range = NoRange THEN 0 ELSE frame_range[1]

WindowEnd ==
    IF frame_range = NoRange THEN total_frames
    ELSE Min2(frame_range[2], total_frames)

\* C27 (as claimed): for the same frame count, frame window and frame_skip,
\* the raw extractor, the overlay extractor and _extract_frames_with_overlays
\* retain the same set of frame indices, and with the default window
\* _process_video retains that set too: the retained set of every finished
\* loop is one function of the video, the window and the stride, whichever
\* loop ran.
C27_Claim ==
    Returned =>
        Retained = SelectionOf(source_frames, WindowStart, WindowEnd, frame_skip)

\* ===================================================== filter properties
Filtered == pc \in {"filtered", "refiltered"}

\* the joints of a pose whose confidence reaches the threshold
QualifyingJoints(pose) ==
    {i \in 1..Len(pose.joints) :
        pose.joints[i].keypoint.confidence >= filter_args.confidence_threshold}

\* s holds exactly the elements of ps at the positions in keep, in the order
\* of ps
IsSubsequenceAt(s, ps, keep) ==
    /\ Len(s) = Cardinality(keep)
    /\ \A i \in keep :
          s[Cardinality({j \in keep : j <= i})] = ps[i]

\* C30 (as claimed): filter_poses_by_validity returns exactly the input poses
\* that have at least min_valid_joints joints with confidence >=
\* confidence_threshold, in input order and unmodified, and applying it a
\* second time changes nothing.
C30_Claim ==
    /\ Filtered =>
          IsSubsequenceAt(filtered, poses,
              {i \in 1..Len(poses) :
                  Cardinality(QualifyingJoints(poses[i]))
                      >= filter_args.min_valid_joints})
    /\ pc = "refiltered" => refiltered = filtered

\* C30 (amended): filter_poses_by_validity returns exactly the input poses
\* that have at least one joint and at least min_valid_joints joints with
\* confidence >= confidence_threshold (a joint exactly at the threshold
\* counts), in input order and unmodified, and applying it a second time
\* with the same parameters changes nothing.
C30_Theorem ==
    /\ Filtered =>
          IsSubsequenceAt(filtered, poses,
              {i \in 1..Len(poses) :
                  /\ poses[i].joints # <<>>
                  /\ Cardinality(QualifyingJoints(poses[i]))
                        >= filter_args.min_valid_joints})
    /\ pc = "refiltered" => refiltered = filtered

\* a pose without joints is dropped and a pose whose only qualifying joint is
\* exactly at the threshold is kept, with min_valid_joints 0 and again
C30_Witness ==
    /\ pc = "refiltered"
    /\ filter_args = [confidence_threshold |-> 7, min_valid_joints |-> 0]
    /\ Len(poses) = 2
    /\ poses[1].joints = <<>>
    /\ Len(poses[2].joints) = 2
    /\ filtered = <<poses[2]>>
    /\ refiltered = filtered

\* =============================================== orchestration properties
\* the overlay extractor raised after the raw phase had stored its paths
OverlayFailedAfterRaw ==
    /\ m_pc = "raised"
    /\ invoked = {"raw", "overlay"}

\* C21 (as claimed, Scenario D): when overlay extraction raises after the raw
\* phase has completed, the wrapping caller (export_all_formats,
\* generate_comprehensive_frame_extractions) still returns the raw phase's
\* list of written paths; only the overlay frames are missing.
C21_Claim ==
    (OverlayFailedAfterRaw /\ wrapper # NoWrapper) =>
        /\ wrapper.status = "returned"
        /\ wrapper.results # None_
        /\ wrapper.results[1].raw_frames = m_results.raw_frames
        /\ wrapper.results[1].overlay_frames = <<>>

\* C28: in one run of extract_all_frame_types the output directories exist
\* before an extractor is called, every "raw_frames" callback comes before
\* every "overlay_frames" callback, and the progress values the caller
\* receives never decrease and strictly increase within a phase.
C28_Theorem ==
    /\ invoked # {} =>
          /\ m_config.extract_raw_frames => "raw" \in directories
          /\ m_config.extract_overlay_frames => "overlay" \in directories
    /\ invoked \subseteq directories
    /\ m_pc = "entered" => directories = {}
    /\ \A i \in 1..Len(m_log), j \in 1..Len(m_log) :
          i < j =>
            /\ ~ (m_log[i].phase = "overlay_frames"
                    /\ m_log[j].phase = "raw_frames")
            /\ m_log[i].progress.num * m_log[j].progress.den
                  <= m_log[j].progress.num * m_log[i].progress.den
            /\ m_log[i].phase = m_log[j].phase =>
                  m_log[i].progress.num * m_log[j].progress.den
                      < m_log[j].progress.num * m_log[i].progress.den

\* both phases ran to their end with callbacks: raw ended at 1/2, overlay
\* began above it
C28_Witness ==
    /\ m_pc = "returned"
    /\ directories = {"raw", "overlay"}
    /\ Cardinality(LoggedAs("raw_frames")) >= 2
    /\ Cardinality(LoggedAs("overlay_frames")) >= 2
    /\ \E n \in LoggedAs("raw_frames") :
          2 * m_log[n].progress.num = m_log[n].progress.den

\* ===================================================== renderer properties
Rendered == pc \in {"rendered", "raised"} /\ drawn.status # "none"

\* the joints of the poses drawn that reach the threshold (inclusive)
Qualifying ==
    {j \in UNION {Range(poses[i].joints) : i \in 1..Len(poses)} :
        j.keypoint.confidence >= render_config.confidence_threshold}

\* C25: _draw_poses_on_frame never changes its input frame and returns a new
\* frame; every mark it adds belongs to a joint with confidence >= the
\* threshold, and every such joint gets its marker, so a pose without such a
\* joint contributes nothing; when no pose has one the frame returned equals
\* the input, no exception is raised and that frame is handed to _save_frame.
C25_Theorem ==
    Rendered =>
        /\ drawn.frame = drawn.input
        /\ drawn.input \subseteq drawn.overlay_frame
        /\ \A mark \in drawn.overlay_frame \ drawn.input :
              \E j \in Qualifying :
                  \/ mark.at = <<j.keypoint.x, j.keypoint.y>>
                  \/ mark.shape = "text"
                        /\ mark.at = <<j.keypoint.x, j.keypoint.y - 10>>
        /\ drawn.status = "ok" =>
              \A j \in Qualifying :
                  [shape |-> "circle", at |-> <<j.keypoint.x, j.keypoint.y>>]
                      \in drawn.overlay_frame
        /\ Qualifying = {} =>
              /\ drawn.status = "ok"
              /\ drawn.overlay_frame = drawn.input
              /\ frame_written.called
              /\ frame_written.frame = drawn.input

\* two poses with joints, all below the threshold, on a frame that shows
\* something: the frame comes back equal and is written
C25_Witness ==
    /\ pc = "rendered"
    /\ Len(poses) = 2
    /\ poses[1].joints # <<>>
    /\ poses[2].joints # <<>>
    /\ poses[1].joints # poses[2].joints
    /\ Qualifying = {}
    /\ drawn.input # {}
    /\ drawn.overlay_frame = drawn.input
    /\ frame_written.called
    /\ frame_written.saved

====
